---- MODULE Spec2Model ----
(***************************************************************************)
(* Pen-convolution engine of the rendering library: knot pool and knot     *)
(* rings (knots.c, list.c), path builders and draw_shape (draw.c), pen     *)
(* validation, subdivision and convolution (brush.c), pen transforms       *)
(* (transforms.c).                                                         *)
(*                                                                         *)
(* Numbers.  The C code computes in IEEE doubles.  The model computes in   *)
(* exact rational arithmetic: a number is a pair <<n, d>> in lowest terms  *)
(* with d > 0.  The literals 0.3 and 0.7 are 3/10 and 7/10.  Angles are    *)
(* measured in units of pi/4, and atan2 is tabulated for the directions    *)
(* that are multiples of 45 degrees; the pen points of the model are       *)
(* chosen so that every edge between two of them has such a direction.     *)
(***************************************************************************)
EXTENDS Integers, Sequences, FiniteSets, TLC

(***************************************************************************)
(* Exact arithmetic standing in for the C type double.                     *)
(***************************************************************************)
Abs(n) == IF n < 0 THEN 0 - n ELSE n

RECURSIVE Gcd(_, _)
Gcd(a, b) == IF b = 0 THEN a ELSE Gcd(b, a % b)

Rat(n, d) ==
    LET s == IF d < 0 THEN 0 - 1 ELSE 1
        g == Gcd(Abs(n), Abs(d))
    IN  <<(s * n) \div g, (s * d) \div g>>

R(n) == <<n, 1>>
Zero == <<0, 1>>
One == <<1, 1>>
RNeg(a) == <<0 - a[1], a[2]>>
(* Sums and products over the least common denominator, so that the
   intermediate integers stay small. *)
RAdd(a, b) ==
    IF a[2] = 0 \/ b[2] = 0 THEN <<0, 0>>
    ELSE Rat(a[1] * (b[2] \div Gcd(a[2], b[2]))
               + b[1] * (a[2] \div Gcd(a[2], b[2])),
             (a[2] \div Gcd(a[2], b[2])) * b[2])
RSub(a, b) == RAdd(a, RNeg(b))
RMul(a, b) ==
    IF a[2] = 0 \/ b[2] = 0 THEN <<0, 0>>
    ELSE <<(a[1] \div Gcd(Abs(a[1]), b[2])) * (b[1] \div Gcd(Abs(b[1]), a[2])),
           (a[2] \div Gcd(Abs(b[1]), a[2])) * (b[2] \div Gcd(Abs(a[1]), b[2]))>>
RDiv(a, b) ==
    IF b[1] = 0 THEN Rat(a[1] * b[2], 0)
    ELSE RMul(a, IF b[1] < 0 THEN <<0 - b[2], 0 - b[1]>> ELSE <<b[2], b[1]>>)
RLt(a, b) == a[1] * b[2] < b[1] * a[2]
RLe(a, b) == a[1] * b[2] <= b[1] * a[2]
RAbs(a) == <<Abs(a[1]), a[2]>>
RSign(a) == IF a[1] < 0 THEN 0 - 1 ELSE IF a[1] > 0 THEN 1 ELSE 0

(* point_t: a pair of numbers. *)
Pt(x, y) == <<x, y>>
PAdd(a, b) == <<RAdd(a[1], b[1]), RAdd(a[2], b[2])>>
PSub(a, b) == <<RSub(a[1], b[1]), RSub(a[2], b[2])>>
PScale(t, a) == <<RMul(t, a[1]), RMul(t, a[2])>>
IPt(x, y) == <<R(x), R(y)>>

(***************************************************************************)
(* Program constants.                                                      *)
(***************************************************************************)
NULL == 0
kt_regular == 0
kt_explicit == 1
kt_open == 4
KNOTS_INCREMENT == 1024
PEN_MAX == 1024
TRACE_MAX == 1024
(* M_PI in units of pi/4. *)
M_PI == 4

(***************************************************************************)
(* State.                                                                  *)
(***************************************************************************)
VARIABLES
    knot,              \* the knots handed out so far: id -> knot_t
    unused_knots,      \* the free pool, head first
    knots_block_count, \* number of calloc'ed blocks
    path,              \* the caller's path ring (first knot) or NULL
    brush,             \* the caller's pen ring (first knot) or NULL
    return_path,       \* the caller's second ring (clone) or NULL
    tee_stack,         \* brush.c global, entries written so far
    tee_top,
    tee_peak,          \* largest tee_top reached so far (history)
    trace,             \* brush.c global, entries written so far
    trace_top,
    trace_log,         \* for each piece in trace: path knot, pen knot, branch (history)
    stroke,            \* the brush_stroke_t under construction
    ret,               \* last value returned by brush_make (0: none yet)
    pc,                \* position inside draw_shape ("idle" outside)
    fault,             \* "none", or the undefined behaviour that was hit
    hist               \* observation of the last operations (history)

vars == <<knot, unused_knots, knots_block_count, path, brush, return_path,
          tee_stack, tee_top, tee_peak, trace, trace_top, trace_log, stroke, ret,
          pc, fault, hist>>

(***************************************************************************)
(* knot_t as calloc leaves it.                                             *)
(***************************************************************************)
ZeroKnot ==
    [x |-> Zero, y |-> Zero,
     left_info |-> <<Zero, Zero>>, right_info |-> <<Zero, Zero>>,
     left_type |-> kt_regular, right_type |-> kt_regular,
     succ |-> NULL, pred |-> NULL]

(* The memory a function works on: heap, pool, block count. *)
Mem == [knot |-> knot, unused_knots |-> unused_knots,
        knots_block_count |-> knots_block_count]

Pos(h, k) == <<h[k].x, h[k].y>>
SUCC(h, k) == h[k].succ
PRED(h, k) == h[k].pred

(***************************************************************************)
(* list.c                                                                  *)
(***************************************************************************)
(* LINK without the back link of the successor. *)
LINK_forward(h, pred, new_node, succ) ==
    LET h1 == [h EXCEPT ![new_node].succ = succ]
        h2 == [h1 EXCEPT ![new_node].pred = pred]
    IN  [h2 EXCEPT ![pred].succ = new_node]

LINK(h, pred, new_node, succ) ==
    LET h1 == [h EXCEPT ![new_node].succ = succ]
        h2 == [h1 EXCEPT ![new_node].pred = pred]
        h3 == [h2 EXCEPT ![succ].pred = new_node]
    IN  [h3 EXCEPT ![pred].succ = new_node]

list_insert_after(h, pred, new_node) == LINK(h, pred, new_node, h[pred].succ)

list_insert_before(h, new_node, succ) == LINK(h, h[succ].pred, new_node, succ)

list_remove_node(h, target) ==
    LET pred == h[target].pred
        succ == h[target].succ
        h1 == [h EXCEPT ![pred].succ = succ]
    IN  [h1 EXCEPT ![succ].pred = pred]

list_remove_head(list) ==
    IF list = <<>> THEN [node |-> NULL, list |-> list]
    ELSE [node |-> Head(list), list |-> Tail(list)]

list_add_tail(list, n) == Append(list, n)

list_add_head(list, n) == <<n>> \o list

(***************************************************************************)
(* Sequencing.  A C local that is assigned once and read several times is  *)
(* bound with The({ body : v \in {value} }): the value is computed once    *)
(* and body reads it as v.                                                 *)
(***************************************************************************)
The(S) == CHOOSE v \in S : TRUE

(* The knots a loop over a ring visits: from k by succ, at most n of them,
   up to the one whose successor is first (or, with open, has
   right = Regular).  The walk is halved to keep the evaluation shallow. *)
RECURSIVE Walk(_, _, _, _, _)
Walk(h, first, k, n, open) ==
    IF n <= 1 THEN <<k>>
    ELSE The({ The({ IF Len(a) < n \div 2 \/ q = first
                        \/ (open /\ kt_regular = h[q].right_type)
                     THEN a
                     ELSE a \o Walk(h, first, q, n - n \div 2, open)
                   : q \in {h[a[Len(a)]].succ} })
             : a \in {Walk(h, first, k, n \div 2, open)} })

Ring(h, first) == Walk(h, first, first, Cardinality(DOMAIN h), FALSE)
Visited(h, first) == Walk(h, first, first, Cardinality(DOMAIN h), TRUE)

(***************************************************************************)
(* knots.c: the pool                                                       *)
(***************************************************************************)
(* The knots of block number b (0-based), in address order. *)
Block(b) == [i \in 1..KNOTS_INCREMENT |-> b * KNOTS_INCREMENT + i]

(* The heap with knot k readable: a knot never handed out before is as
   calloc left it. *)
Touch(h, k) ==
    IF k = NULL \/ k \in DOMAIN h THEN h
    ELSE [i \in DOMAIN h \cup {k} |-> IF i = k THEN ZeroKnot ELSE h[i]]

knots_get(m) ==
    The({ The({ [mem |-> [m1 EXCEPT !.unused_knots = r2.list,
                                    !.knot = Touch(@, r2.node)],
                 result |-> r2.node]
              : r2 \in {list_remove_head(m1.unused_knots)} })
        : m1 \in {LET r1 == list_remove_head(m.unused_knots)
                  IN  IF r1.node = NULL
                      THEN [m EXCEPT !.unused_knots =
                                         r1.list \o Block(m.knots_block_count),
                                     !.knots_block_count = @ + 1]
                      ELSE [m EXCEPT !.unused_knots = r1.list]} })

knots_free(list, k) == list_add_tail(list, k)

(* knots_copy that copies the position and the type tags only. *)
knots_copy_no_info(h, dst, src) ==
    [h EXCEPT ![dst].x = h[src].x, ![dst].y = h[src].y,
              ![dst].left_type = h[src].left_type,
              ![dst].right_type = h[src].right_type]

knots_copy(h, dst, src) ==
    [h EXCEPT ![dst].x = h[src].x, ![dst].y = h[src].y,
              ![dst].left_type = h[src].left_type,
              ![dst].right_type = h[src].right_type,
              ![dst].left_info = h[src].left_info,
              ![dst].right_info = h[src].right_info]

(* The while loop of knots_ring_free: unlink knot's successor, push it on
   the head of the pool, until knot is alone.  ks is the ring before the
   loop; the successors are ks[lo], ..., ks[hi] in this order. *)
RECURSIVE knots_ring_free_loop(_, _, _, _)
knots_ring_free_loop(m, ks, lo, hi) ==
    IF lo > hi THEN m
    ELSE IF lo = hi
    THEN [m EXCEPT !.knot = [list_remove_node(@, ks[lo]) EXCEPT
                                ![ks[lo]].succ = NULL, ![ks[lo]].pred = NULL],
                   !.unused_knots = list_add_head(@, ks[lo])]
    ELSE The({ knots_ring_free_loop(m1, ks, (lo + hi) \div 2 + 1, hi)
             : m1 \in {knots_ring_free_loop(m, ks, lo, (lo + hi) \div 2)} })

knots_ring_free(m, k0) ==
    The({ [knots_ring_free_loop(m, ks, 2, Len(ks)) EXCEPT
              !.unused_knots = list_add_tail(@, k0),
              !.knot = [@ EXCEPT ![k0].succ = NULL, ![k0].pred = NULL]]
        : ks \in {Ring(m.knot, k0)} })

(* The while loop of knots_ring_clone over og_node = ks[lo], ..., ks[hi],
   copy_node the copy made last.  ok is FALSE once knots_get has returned
   NULL and the NULL knot was written to. *)
RECURSIVE knots_ring_clone_loop(_, _, _, _, _)
knots_ring_clone_loop(m, ks, copy_node, lo, hi) ==
    IF lo > hi THEN [mem |-> m, result |-> copy_node, ok |-> TRUE]
    ELSE IF lo = hi
    THEN The({ IF g.result = NULL
               THEN [mem |-> g.mem, result |-> NULL, ok |-> FALSE]
               ELSE [mem |-> [g.mem EXCEPT !.knot =
                                list_insert_after(
                                    knots_copy(@, g.result, ks[lo]),
                                    copy_node, g.result)],
                     result |-> g.result, ok |-> TRUE]
             : g \in {knots_get(m)} })
    ELSE The({ IF ~l.ok THEN l
               ELSE knots_ring_clone_loop(l.mem, ks, l.result,
                                          (lo + hi) \div 2 + 1, hi)
             : l \in {knots_ring_clone_loop(m, ks, copy_node, lo,
                                            (lo + hi) \div 2)} })

(* The copy of the first knot is linked to itself; the loop appends the
   copies of the others; the result is the successor of the last copy. *)
knots_ring_clone(m, knots) ==
    The({
      IF g.result = NULL
      THEN [mem |-> g.mem, result |-> NULL, ok |-> FALSE]
      ELSE The({ IF ~l.ok THEN l
                 ELSE [l EXCEPT !.result = l.mem.knot[l.result].succ]
               : l \in {The({ knots_ring_clone_loop(m1, Ring(m.knot, knots),
                                                    g.result, 2,
                                                    Len(Ring(m.knot, knots)))
                  : m1 \in {[g.mem EXCEPT !.knot =
                              knots_copy([@ EXCEPT ![g.result].succ = g.result,
                                                   ![g.result].pred = g.result],
                                         g.result, knots)]} })} })
    : g \in {knots_get(m)} })

(* The swap written without temporaries: the left side is lost. *)
ReverseKnot_no_temp(h, k) ==
    [h EXCEPT ![k].right_info = h[k].left_info,
              ![k].right_type = h[k].left_type,
              ![k].succ = h[k].pred,
              ![k].pred = h[k].succ]

(* One pass of the do-while loop of knots_ring_reverse on knot k: swap the
   two sides and the two links. *)
ReverseKnot(h, k) ==
    [h EXCEPT ![k].right_info = h[k].left_info,
              ![k].left_info = h[k].right_info,
              ![k].right_type = h[k].left_type,
              ![k].left_type = h[k].right_type,
              ![k].succ = h[k].pred,
              ![k].pred = h[k].succ]

(* The do-while loop of knots_ring_reverse over current_knot = ks[lo],
   ..., ks[hi], ks the ring before the loop. *)
RECURSIVE knots_ring_reverse_loop(_, _, _, _, _)
knots_ring_reverse_loop(h, ks, new_start, lo, hi) ==
    IF lo = hi
    THEN [knot |-> ReverseKnot(h, ks[lo]),
          new_start |-> IF kt_regular = h[ks[lo]].right_type THEN ks[lo]
                        ELSE new_start]
    ELSE The({ knots_ring_reverse_loop(l.knot, ks, l.new_start,
                                       (lo + hi) \div 2 + 1, hi)
             : l \in {knots_ring_reverse_loop(h, ks, new_start, lo,
                                              (lo + hi) \div 2)} })

(* knots_ring_reverse returning the new start without rewriting the two
   boundary types. *)
knots_ring_reverse_unmarked(h, knots) ==
    The({ IF NULL # l.new_start
          THEN [knot |-> l.knot, result |-> l.new_start]
          ELSE [knot |-> l.knot, result |-> knots]
        : l \in {The({ knots_ring_reverse_loop(h, ks, NULL, 1, Len(ks))
                     : ks \in {Ring(h, knots)} })} })

knots_ring_reverse(h, knots) ==
    The({ IF NULL # l.new_start
          THEN [knot |-> [l.knot EXCEPT
                            ![l.new_start].left_type = kt_open,
                            ![l.knot[l.new_start].pred].right_type = kt_regular],
                result |-> l.new_start]
          ELSE [knot |-> l.knot, result |-> knots]
        : l \in {The({ knots_ring_reverse_loop(h, ks, NULL, 1, Len(ks))
                     : ks \in {Ring(h, knots)} })} })

(***************************************************************************)
(* math_functions.c                                                        *)
(***************************************************************************)
(* reduce_angle normalising into [0, 2 pi). *)
reduce_angle_positive(angle) ==
    IF 0 > angle THEN angle + 2 * M_PI ELSE angle

reduce_angle(angle) ==
    IF M_PI < angle THEN angle - 2 * M_PI
    ELSE IF 0 - M_PI > angle THEN angle + 2 * M_PI
    ELSE angle

(* atan2 of libm in units of pi/4, for directions that are multiples of
   45 degrees (and atan2(0, 0) = 0). *)
atan2(y, x) ==
    LET sx == RSign(x)
        sy == RSign(y)
    IN  CASE sx = 0 /\ sy = 0 -> 0
          [] sx = 1 /\ sy = 0 -> 0
          [] sx = 1 /\ sy = 1 /\ RAbs(x) = RAbs(y) -> 1
          [] sx = 0 /\ sy = 1 -> 2
          [] sx = 0 - 1 /\ sy = 1 /\ RAbs(x) = RAbs(y) -> 3
          [] sx = 0 - 1 /\ sy = 0 -> 4
          [] sx = 0 - 1 /\ sy = 0 - 1 /\ RAbs(x) = RAbs(y) -> 0 - 3
          [] sx = 0 /\ sy = 0 - 1 -> 0 - 2
          [] sx = 1 /\ sy = 0 - 1 /\ RAbs(x) = RAbs(y) -> 0 - 1

(***************************************************************************)
(* draw.c: path builders                                                   *)
(***************************************************************************)
moveto(m, point) ==
    The({ IF g.result = NULL
          THEN [mem |-> g.mem, result |-> NULL, ok |-> FALSE]
          ELSE [mem |-> [g.mem EXCEPT !.knot =
                          [@ EXCEPT ![g.result].pred = g.result,
                                    ![g.result].succ = g.result,
                                    ![g.result].x = point[1],
                                    ![g.result].y = point[2],
                                    ![g.result].left_type = kt_open,
                                    ![g.result].right_type = kt_regular]],
                result |-> g.result, ok |-> TRUE]
        : g \in {knots_get(m)} })

(* The part lineto, rlineto and pathclose share: the straight-line handles
   of the segment r -> q. *)
LineHandles(h, r, q) ==
    LET rp == Pos(h, r)
        d  == PSub(Pos(h, q), rp)
    IN  [h EXCEPT ![r].right_type = kt_explicit,
                  ![r].right_info = PAdd(rp, PScale(Rat(3, 10), d)),
                  ![q].left_type = kt_explicit,
                  ![q].left_info = PAdd(rp, PScale(Rat(7, 10), d))]

(* The part lineto, rlineto and curveto share: the new knot q at point,
   right side Regular, linked in before p. *)
NewTail(h, q, p, point) ==
    The({ list_insert_before(h1, q, p)
        : h1 \in {[h EXCEPT ![q].x = point[1], ![q].y = point[2],
                            ![q].right_type = kt_regular]} })

lineto(m, p, point) ==
    LET r == m.knot[p].pred
    IN  The({ IF g.result = NULL
              THEN [mem |-> g.mem, result |-> p, ok |-> FALSE]
              ELSE The({ [mem |-> [g.mem EXCEPT !.knot =
                                     LineHandles(h2, r, g.result)],
                          result |-> p, ok |-> TRUE]
                       : h2 \in {NewTail(g.mem.knot, g.result, p, point)} })
            : g \in {knots_get(m)} })

rlineto(m, t, p) ==
    LET r == m.knot[t].pred
    IN  The({ IF g.result = NULL
              THEN [mem |-> g.mem, result |-> t, ok |-> FALSE]
              ELSE The({ [mem |-> [g.mem EXCEPT !.knot =
                                     LineHandles(h2, r, g.result)],
                          result |-> t, ok |-> TRUE]
                       : h2 \in {NewTail(g.mem.knot, g.result, t,
                                         PAdd(Pos(m.knot, r), p))} })
            : g \in {knots_get(m)} })

curveto(m, p, control1, control2, end) ==
    LET r == m.knot[p].pred
    IN  The({ IF g.result = NULL
              THEN [mem |-> g.mem, result |-> p, ok |-> FALSE]
              ELSE [mem |-> [g.mem EXCEPT !.knot =
                              [NewTail(@, g.result, p, end) EXCEPT
                                  ![r].right_type = kt_explicit,
                                  ![r].right_info = control1,
                                  ![g.result].left_type = kt_explicit,
                                  ![g.result].left_info = control2]],
                    result |-> p, ok |-> TRUE]
            : g \in {knots_get(m)} })

pathclose(h, p) ==
    LET r == h[p].pred
    IN  IF r # p THEN LineHandles(h, r, p) ELSE h

(***************************************************************************)
(* brush.c: brush_make                                                     *)
(***************************************************************************)
(* ChordHandles with the left handle put beyond the knot. *)
ChordHandles_leftplus(h, p, q, du, dv) ==
    [h EXCEPT ![p].right_info =
                  <<RAdd(h[p].x, RDiv(du, R(3))), RAdd(h[p].y, RDiv(dv, R(3)))>>,
              ![q].left_info =
                  <<RAdd(h[q].x, RDiv(du, R(3))), RAdd(h[q].y, RDiv(dv, R(3)))>>]

(* The control points brush_make gives the edge p -> q, (du, dv) = q - p. *)
ChordHandles(h, p, q, du, dv) ==
    [h EXCEPT ![p].right_info =
                  <<RAdd(h[p].x, RDiv(du, R(3))), RAdd(h[p].y, RDiv(dv, R(3)))>>,
              ![q].left_info =
                  <<RSub(h[q].x, RDiv(du, R(3))), RSub(h[q].y, RDiv(dv, R(3)))>>]

(* The loop of brush_make with the turn tested before the length of the
   outgoing edge. *)
RECURSIVE brush_make_loop_turn_first(_, _, _, _, _, _)
brush_make_loop_turn_first(h, knots, p, dx, dy, alpha) ==
    The({ The({ The({ The({
        IF 0 >= theta THEN [knot |-> h2, result |-> 0 - 2]
        ELSE IF Zero = d[1] /\ Zero = d[2] THEN [knot |-> h2, result |-> 0 - 1]
        ELSE IF q # knots
             THEN brush_make_loop_turn_first(h2, knots, q, d[1], d[2],
                                             alpha + theta)
             ELSE IF 2 * M_PI < alpha + theta
                  THEN [knot |-> h2, result |-> 0 - 3]
                  ELSE [knot |-> h2, result |-> 1]
        : theta \in {reduce_angle(atan2(d[2], d[1]) - atan2(dy, dx))} })
        : h2 \in {ChordHandles(h, p, q, d[1], d[2])} })
      : d \in {PSub(Pos(h, q), Pos(h, p))} })
    : q \in {SUCC(h, p)} })

(* The do-while loop of brush_make; p is the current knot, (dx, dy) the
   direction that ends in p, alpha the angle accumulated so far. *)
RECURSIVE brush_make_loop(_, _, _, _, _, _)
brush_make_loop(h, knots, p, dx, dy, alpha) ==
    The({ The({ The({
        IF Zero = d[1] /\ Zero = d[2] THEN [knot |-> h2, result |-> 0 - 1]
        ELSE The({
               IF 0 >= theta THEN [knot |-> h2, result |-> 0 - 2]
               ELSE IF q # knots
                    THEN brush_make_loop(h2, knots, q, d[1], d[2], alpha + theta)
                    ELSE IF 2 * M_PI < alpha + theta
                         THEN [knot |-> h2, result |-> 0 - 3]
                         ELSE [knot |-> h2, result |-> 1]
             : theta \in {reduce_angle(atan2(d[2], d[1]) - atan2(dy, dx))} })
        : h2 \in {ChordHandles(h, p, q, d[1], d[2])} })
      : d \in {PSub(Pos(h, q), Pos(h, p))} })
    : q \in {SUCC(h, p)} })

(* brush_make taking its first direction from the successor. *)
brush_make_succ(h, knots) ==
    The({ IF Zero = d[1] /\ Zero = d[2] THEN [knot |-> h, result |-> 0 - 1]
          ELSE brush_make_loop(h, knots, knots, d[1], d[2], 0)
        : d \in {PSub(Pos(h, knots), Pos(h, SUCC(h, knots)))} })

(* brush_make without the test of the edge that ends in the first knot. *)
brush_make_unchecked(h, knots) ==
    The({ brush_make_loop(h, knots, knots, d[1], d[2], 0)
        : d \in {PSub(Pos(h, knots), Pos(h, PRED(h, knots)))} })

brush_make(h, knots) ==
    The({ IF Zero = d[1] /\ Zero = d[2] THEN [knot |-> h, result |-> 0 - 1]
          ELSE brush_make_loop(h, knots, knots, d[1], d[2], 0)
        : d \in {PSub(Pos(h, knots), Pos(h, PRED(h, knots)))} })

(***************************************************************************)
(* brush.c: tees                                                           *)
(***************************************************************************)
(* Precision of an inexact square root: sqrt rounds down to a multiple of
   1/SqrtDen unless the root is rational.  The precision is chosen so that
   the knots of a cubic split at such a root have coordinates whose
   numerators and denominators stay below 2^31. *)
SqrtDen == 10

RECURSIVE IsqrtSearch(_, _, _)
IsqrtSearch(n, lo, hi) ==
    IF lo >= hi THEN lo
    ELSE LET mid == (lo + hi + 1) \div 2
         IN  IF mid * mid <= n THEN IsqrtSearch(n, mid, hi)
             ELSE IsqrtSearch(n, lo, mid - 1)

(* Largest r with r * r <= n, for 0 <= n < 2^30. *)
Isqrt(n) == IsqrtSearch(n, 0, 32767)

(* sqrt of libm on a non-negative number. *)
sqrt(x) ==
    The({ IF rn * rn = x[1] /\ rd * rd = x[2] THEN <<rn, rd>>
          ELSE Rat(Isqrt((x[1] * SqrtDen * SqrtDen) \div x[2]), SqrtDen)
        : rn \in {Isqrt(x[1])}, rd \in {Isqrt(x[2])} })

(* The value 0.0 / 0.0: every comparison with it is false. *)
NaN == <<0, 0>>

(* a[i] = v for a C array kept as the sequence of its entries written so
   far (index 0 first). *)
ArrPut(a, i, v) ==
    IF i < Len(a) THEN [a EXCEPT ![i + 1] = v] ELSE Append(a, v)

(* tee_stack[tee_top++] = v; sc is the pair of globals. *)
Push(sc, v) ==
    [tee_stack |-> ArrPut(sc.tee_stack, sc.tee_top, v),
     tee_top |-> sc.tee_top + 1,
     peak |-> IF sc.tee_top + 1 > sc.peak THEN sc.tee_top + 1 ELSE sc.peak]

(* solve_quadratic taking -b/a for 2B/a in the branch c = 0. *)
solve_quadratic_halved(sc, a, b, c) ==
    IF Zero = a
    THEN IF Zero # b
         THEN [sc |-> Push(sc, RDiv(c, RMul(R(2), b))), n |-> 1]
         ELSE [sc |-> sc, n |-> 0]
    ELSE IF Zero = c
    THEN IF Zero # b
         THEN [sc |-> Push(Push(sc, Zero), RDiv(b, a)), n |-> 2]
         ELSE [sc |-> Push(sc, Zero), n |-> 1]
    ELSE The({
           IF RLt(d0, Zero) THEN [sc |-> sc, n |-> 0]
           ELSE The({
                  IF Zero = d THEN [sc |-> Push(sc, RDiv(b, a)), n |-> 1]
                  ELSE IF RLt(b, Zero)
                  THEN [sc |-> Push(Push(sc, RDiv(c, RSub(b, d))),
                                    RDiv(RSub(b, d), a)), n |-> 2]
                  ELSE [sc |-> Push(Push(sc, RDiv(c, RAdd(b, d))),
                                    RDiv(RAdd(b, d), a)), n |-> 2]
                : d \in {sqrt(d0)} })
         : d0 \in {RSub(RMul(b, b), RMul(a, c))} })

solve_quadratic(sc, a, b, c) ==
    IF Zero = a
    THEN IF Zero # b
         THEN [sc |-> Push(sc, RDiv(c, RMul(R(2), b))), n |-> 1]
         ELSE [sc |-> sc, n |-> 0]
    ELSE IF Zero = c
    THEN IF Zero # b
         THEN [sc |-> Push(Push(sc, Zero), RDiv(RMul(R(2), b), a)), n |-> 2]
         ELSE [sc |-> Push(sc, Zero), n |-> 1]
    ELSE The({
           IF RLt(d0, Zero) THEN [sc |-> sc, n |-> 0]
           ELSE The({
                  IF Zero = d THEN [sc |-> Push(sc, RDiv(b, a)), n |-> 1]
                  ELSE IF RLt(b, Zero)
                  THEN [sc |-> Push(Push(sc, RDiv(c, RSub(b, d))),
                                    RDiv(RSub(b, d), a)), n |-> 2]
                  ELSE [sc |-> Push(Push(sc, RDiv(c, RAdd(b, d))),
                                    RDiv(RAdd(b, d), a)), n |-> 2]
                : d \in {sqrt(d0)} })
         : d0 \in {RSub(RMul(b, b), RMul(a, c))} })

solve_bezier(sc, u, v, w) ==
    The({ solve_quadratic(sc, a, b, u)
        : a \in {RAdd(RSub(RSub(u, v), v), w)}, b \in {RSub(u, v)} })

ROR_X(x, y, u, v) == RAdd(RMul(u, x), RMul(v, y))
ROR_Y(x, y, u, v) == RSub(RMul(v, x), RMul(u, y))

(* inflection_tees.  m = hypot(x3, y3) is irrational in general; the
   rotation is done with (x3, y3) in place of (x3 / m, y3 / m), which
   leaves every rotated coordinate multiplied by m, and the products
   a, b, c, d are divided by m * m = x3 * x3 + y3 * y3.  With a zero chord
   m = 0, every coordinate is 0/0 and solve_quadratic pushes two NaN. *)
inflection_tees(h, sc, knots) ==
    The({ The({
        IF m2 = Zero THEN Push(Push(sc, NaN), NaN)
        ELSE The({ The({
               solve_quadratic(sc, k[1], k[2], k[3]).sc
             : k \in {<<RMul(R(18), RSub(RAdd(RAdd(RMul(R(0 - 3), v[1]),
                                                    RMul(R(2), v[2])),
                                               RMul(R(3), v[3])), v[4])),
                        RMul(R(9), RAdd(RAdd(RMul(R(0 - 3), v[1]), v[2]),
                                        RMul(R(3), v[3]))),
                        RMul(R(18), RSub(v[3], v[1]))>>} })
           : v \in {LET x0 == ROR_X(c[3][1], c[3][2], c[1][1], c[1][2])
                        y0 == ROR_Y(c[3][1], c[3][2], c[1][1], c[1][2])
                        x1 == ROR_X(c[3][1], c[3][2], c[2][1], c[2][2])
                        y1 == ROR_Y(c[3][1], c[3][2], c[2][1], c[2][2])
                        x2 == ROR_X(c[3][1], c[3][2], c[3][1], c[3][2])
                    IN  <<RDiv(RMul(x1, y0), m2), RDiv(RMul(x2, y0), m2),
                          RDiv(RMul(x0, y1), m2), RDiv(RMul(x2, y1), m2)>>} })
      : m2 \in {RAdd(RMul(c[3][1], c[3][1]), RMul(c[3][2], c[3][2]))} })
    : c \in {LET q == SUCC(h, knots)
             IN  <<PSub(h[knots].right_info, Pos(h, knots)),
                   PSub(h[q].left_info, Pos(h, knots)),
                   PSub(Pos(h, q), Pos(h, knots))>>} })

(* The do-while loop of pen_tees over the pen edges p -> SUCC(p);
   d = <<(x0, y0), (x1, y1), (x2, y2)>> is the first derivative. *)
RECURSIVE pen_tees_loop(_, _, _, _, _)
pen_tees_loop(h, sc, d, pen, p) ==
    The({ The({ IF q # pen THEN pen_tees_loop(h, sc1, d, pen, q) ELSE sc1
              : sc1 \in {solve_bezier(sc,
                    RSub(RMul(d[1][2], e[1]), RMul(d[1][1], e[2])),
                    RSub(RMul(d[2][2], e[1]), RMul(d[2][1], e[2])),
                    RSub(RMul(d[3][2], e[1]), RMul(d[3][1], e[2]))).sc} })
        : q \in {SUCC(h, p)}, e \in {PSub(Pos(h, SUCC(h, p)), Pos(h, p))} })

(* pen_tees without the loop over the sides of the pen. *)
pen_tees_none(h, sc, knots, pen) == sc

pen_tees(h, sc, knots, pen) ==
    The({ pen_tees_loop(h, sc, d, pen, pen)
        : d \in {LET q == SUCC(h, knots)
                 IN  <<PSub(h[knots].right_info, Pos(h, knots)),
                       PSub(h[q].left_info, h[knots].right_info),
                       PSub(Pos(h, q), h[q].left_info)>>} })

(* The two inner do-while loops of partition_tees. *)
RECURSIVE ScanUp(_, _, _)
ScanUp(a, i, pivot) ==
    IF RLt(a[i + 1], pivot) THEN ScanUp(a, i + 1, pivot) ELSE i

RECURSIVE ScanDown(_, _, _)
ScanDown(a, j, pivot) ==
    IF RLt(pivot, a[j + 1]) THEN ScanDown(a, j - 1, pivot) ELSE j

(* The for (;;) loop of partition_tees; i and j as they are before the
   two scans. *)
RECURSIVE partition_loop(_, _, _, _)
partition_loop(a, i, j, pivot) ==
    The({ IF ij[1] >= ij[2] THEN [tee_stack |-> a, j |-> ij[2]]
          ELSE The({ partition_loop(a1, ij[1], ij[2], pivot)
                   : a1 \in {[a EXCEPT ![ij[1] + 1] = a[ij[2] + 1],
                                       ![ij[2] + 1] = a[ij[1] + 1]]} })
        : ij \in {<<ScanUp(a, i + 1, pivot), ScanDown(a, j - 1, pivot)>>} })

partition_tees(a, lo, hi) == partition_loop(a, lo - 1, hi + 1, a[lo + 1])

RECURSIVE sort_tees(_, _, _)
sort_tees(a, lo, hi) ==
    IF lo < hi
    THEN The({ The({ sort_tees(a1, pr.j + 1, hi)
                   : a1 \in {sort_tees(pr.tee_stack, lo, pr.j)} })
             : pr \in {partition_tees(a, lo, hi)} })
    ELSE a

t_of_the_way(t, a, b) == RAdd(a, RMul(t, RSub(b, a)))

(* t_of_the_way on the x and on the y coordinate. *)
PtOfTheWay(t, a, b) ==
    <<t_of_the_way(t, a[1], b[1]), t_of_the_way(t, a[2], b[2])>>

(* cubic_split leaving the side types of the new knot as knots_get
   returned them. *)
cubic_split_untyped(m, p, t) ==
    The({ The({ The({
        IF g.result = NULL
        THEN [mem |-> g.mem, result |-> NULL, ok |-> FALSE]
        ELSE [mem |-> [g.mem EXCEPT !.knot =
                        [list_insert_after(@, p, g.result) EXCEPT
                            ![g.result].x = w[1], ![g.result].y = w[2],
                            ![p].right_info = u[1],
                            ![g.result].left_info = v[1],
                            ![g.result].right_info = v[2],
                            ![m.knot[p].succ].left_info = u[3]]],
              result |-> g.result, ok |-> TRUE]
        : g \in {knots_get(m)}, w \in {PtOfTheWay(t, v[1], v[2])} })
      : v \in {<<PtOfTheWay(t, u[1], u[2]), PtOfTheWay(t, u[2], u[3])>>} })
    : u \in {LET q == m.knot[p].succ
             IN  <<PtOfTheWay(t, Pos(m.knot, p), m.knot[p].right_info),
                   PtOfTheWay(t, m.knot[p].right_info, m.knot[q].left_info),
                   PtOfTheWay(t, m.knot[q].left_info, Pos(m.knot, q))>>} })

(* u = (u0,a0), (u1,a1), (u2,a2); v = (v0,b0), (v1,b1); w = (w0,c0). *)
cubic_split(m, p, t) ==
    The({ The({ The({
        IF g.result = NULL
        THEN [mem |-> g.mem, result |-> NULL, ok |-> FALSE]
        ELSE [mem |-> [g.mem EXCEPT !.knot =
                        [list_insert_after(@, p, g.result) EXCEPT
                            ![g.result].x = w[1], ![g.result].y = w[2],
                            ![p].right_info = u[1],
                            ![g.result].left_info = v[1],
                            ![g.result].right_info = v[2],
                            ![m.knot[p].succ].left_info = u[3],
                            ![g.result].left_type = kt_explicit,
                            ![g.result].right_type = kt_explicit]],
              result |-> g.result, ok |-> TRUE]
        : g \in {knots_get(m)}, w \in {PtOfTheWay(t, v[1], v[2])} })
      : v \in {<<PtOfTheWay(t, u[1], u[2]), PtOfTheWay(t, u[2], u[3])>>} })
    : u \in {LET q == m.knot[p].succ
             IN  <<PtOfTheWay(t, Pos(m.knot, p), m.knot[p].right_info),
                   PtOfTheWay(t, m.knot[p].right_info, m.knot[q].left_info),
                   PtOfTheWay(t, m.knot[q].left_info, Pos(m.knot, q))>>} })

(* The filter loop of split_at_tees: tees outside (0, 1) are replaced by
   the top of the stack. *)
RECURSIVE filter_tees(_, _)
filter_tees(sc, i) ==
    IF i < sc.tee_top
    THEN IF RLt(Zero, sc.tee_stack[i + 1]) /\ RLt(sc.tee_stack[i + 1], One)
         THEN filter_tees(sc, i + 1)
         ELSE The({ filter_tees(sc1, i)
                  : sc1 \in {[sc EXCEPT
                                !.tee_top = @ - 1,
                                !.tee_stack = [@ EXCEPT ![i + 1] =
                                                 sc.tee_stack[sc.tee_top]]]} })
    ELSE sc

(* The tees of the segment p -> SUCC(p), filtered and sorted. *)
segment_tees(h, sc, p, pen) ==
    The({ The({ IF 1 < f.tee_top
                THEN [f EXCEPT !.tee_stack = sort_tees(@, 0, f.tee_top - 1)]
                ELSE f
              : f \in {filter_tees(raw, 0)} })
        : raw \in {pen_tees(h, inflection_tees(h, [sc EXCEPT !.tee_top = 0], p),
                            p, pen)} })

(* The for loop of split_at_tees handing cubic_split the tee itself instead
   of its position on the rest of the segment. *)
RECURSIVE split_loop_unscaled(_, _, _, _, _)
split_loop_unscaled(m, sc, p, s, i) ==
    IF i < sc.tee_top
    THEN IF s # sc.tee_stack[i + 1]
         THEN The({ IF ~c.ok THEN [mem |-> c.mem, p |-> NULL, ok |-> FALSE]
                    ELSE split_loop_unscaled(c.mem, sc, c.result,
                                             sc.tee_stack[i + 1], i + 1)
                  : c \in {cubic_split(m, p, sc.tee_stack[i + 1])} })
         ELSE split_loop_unscaled(m, sc, p, s, i + 1)
    ELSE [mem |-> m, p |-> p, ok |-> TRUE]

(* The for loop of split_at_tees over the sorted tees; s is the last split
   location. *)
RECURSIVE split_loop(_, _, _, _, _)
split_loop(m, sc, p, s, i) ==
    IF i < sc.tee_top
    THEN IF s # sc.tee_stack[i + 1]
         THEN The({ IF ~c.ok THEN [mem |-> c.mem, p |-> NULL, ok |-> FALSE]
                    ELSE split_loop(c.mem, sc, c.result, sc.tee_stack[i + 1],
                                    i + 1)
                  : c \in {The({ cubic_split(m, p, t)
                               : t \in {RDiv(RSub(sc.tee_stack[i + 1], s),
                                             RSub(One, s))} })} })
         ELSE split_loop(m, sc, p, s, i + 1)
    ELSE [mem |-> m, p |-> p, ok |-> TRUE]

(* The do-while loop of split_at_tees over the segments that start at
   ks[lo], ..., ks[hi]; ks are the knots the loop stops at, which are knots
   of the path as it was before the call. *)
RECURSIVE split_at_tees_loop(_, _, _, _, _, _)
split_at_tees_loop(m, sc, ks, pen, lo, hi) ==
    IF lo = hi
    THEN The({ The({ [mem |-> r.mem, sc |-> sc2, ok |-> r.ok]
                   : r \in {split_loop(m, sc2, ks[lo], Zero, 0)} })
             : sc2 \in {segment_tees(m.knot, sc, ks[lo], pen)} })
    ELSE The({ IF ~l.ok THEN l
               ELSE split_at_tees_loop(l.mem, l.sc, ks, pen,
                                       (lo + hi) \div 2 + 1, hi)
             : l \in {split_at_tees_loop(m, sc, ks, pen, lo,
                                         (lo + hi) \div 2)} })

split_at_tees(m, sc, knots, pen) ==
    The({ split_at_tees_loop(m, sc, ks, pen, 1, Len(ks))
        : ks \in {Visited(m.knot, knots)} })

(***************************************************************************)
(* brush.c: convolution                                                    *)
(***************************************************************************)
(* make_move with the roles of its two arguments exchanged: the segment
   r -> SUCC(r) translated by p. *)
make_move_exchanged(h, tr, r, p, branch) ==
    LET q == SUCC(h, r)
        i == tr.trace_top
        a0 == ArrPut(tr.trace, i, PAdd(Pos(h, p), Pos(h, r)))
        a1 == ArrPut(a0, i + 1, PAdd(Pos(h, p), h[r].right_info))
        a2 == ArrPut(a1, i + 2, PAdd(Pos(h, p), h[q].left_info))
    IN  [trace |-> ArrPut(a2, i + 3, PAdd(Pos(h, p), Pos(h, q))),
         trace_top |-> i + 4,
         log |-> Append(tr.log, [first |-> r, second |-> p, branch |-> branch])]

(* make_move(r, p): the segment p -> SUCC(p) translated by r, written to
   trace[trace_top .. trace_top + 3].  log records which call wrote it. *)
make_move(h, tr, r, p, branch) ==
    LET q == SUCC(h, p)
        i == tr.trace_top
        a0 == ArrPut(tr.trace, i, PAdd(Pos(h, r), Pos(h, p)))
        a1 == ArrPut(a0, i + 1, PAdd(Pos(h, r), h[p].right_info))
        a2 == ArrPut(a1, i + 2, PAdd(Pos(h, r), h[q].left_info))
    IN  [trace |-> ArrPut(a2, i + 3, PAdd(Pos(h, r), Pos(h, q))),
         trace_top |-> i + 4,
         log |-> Append(tr.log, [first |-> r, second |-> p, branch |-> branch])]

Cross(a, b) == RSub(RMul(a[1], b[2]), RMul(a[2], b[1]))

(* fabs(d) < SMALL.  Every non-zero number the model computes with is a
   ratio of two integers below 2^31, hence larger than SMALL = 1e-12. *)
IsSmall(d) == d = Zero

(* clockwise without the tolerance for nearly colinear vectors. *)
clockwise_strict(a, b) == RLt(Zero, Cross(a, b))

clockwise(a, b) ==
    The({ IF IsSmall(d) THEN TRUE ELSE RLe(Zero, d) : d \in {Cross(a, b)} })

(* within_turn testing the third vector against the first only. *)
within_turn_half(v1, v2, v3) ==
    IF ~clockwise(v1, v2)
    THEN clockwise(v2, v3)
    ELSE clockwise(v1, v3)

within_turn(v1, v2, v3) ==
    IF ~clockwise(v1, v2)
    THEN clockwise(v2, v3) /\ clockwise(v3, v1)
    ELSE clockwise(v1, v3) /\ clockwise(v3, v2)

(* convolve with the two make_move calls in the opposite order. *)
convolve_swapped(h, tr, p, v1, v2, v3, r) ==
    The({ The({ IF within_turn(v1, v2, v[2]) THEN make_move(h, tr1, p, r, 1)
                ELSE tr1
              : tr1 \in {IF within_turn(v[1], v[2], v3)
                         THEN make_move(h, tr, r, p, 2) ELSE tr} })
        : v \in {<<PSub(Pos(h, r), Pos(h, PRED(h, r))),
                   PSub(Pos(h, SUCC(h, r)), Pos(h, r))>>} })

(* v = <<(x4, y4), (x5, y5)>>. *)
convolve(h, tr, p, v1, v2, v3, r) ==
    The({ The({ IF within_turn(v[1], v[2], v3) THEN make_move(h, tr1, r, p, 2)
                ELSE tr1
              : tr1 \in {IF within_turn(v1, v2, v[2])
                         THEN make_move(h, tr, p, r, 1) ELSE tr} })
        : v \in {<<PSub(Pos(h, r), Pos(h, PRED(h, r))),
                   PSub(Pos(h, SUCC(h, r)), Pos(h, r))>>} })

(* The inner do-while loop of convolve_all over the pen knots. *)
RECURSIVE convolve_pen_loop(_, _, _, _, _, _)
convolve_pen_loop(h, tr, p, v, pen, r) ==
    The({ IF SUCC(h, r) # pen
          THEN convolve_pen_loop(h, tr1, p, v, pen, SUCC(h, r))
          ELSE tr1
        : tr1 \in {convolve(h, tr, p, v[1], v[2], v[3], r)} })

(* The outer do-while loop of convolve_all over the path knots
   ks[lo], ..., ks[hi]. *)
RECURSIVE convolve_all_loop(_, _, _, _, _, _)
convolve_all_loop(h, tr, ks, pen, lo, hi) ==
    IF lo = hi
    THEN The({ convolve_pen_loop(h, tr, ks[lo], v, pen, pen)
             : v \in {LET p == ks[lo]
                          v2 == PSub(h[p].right_info, Pos(h, p))
                      IN  <<IF kt_explicit = h[p].left_type
                            THEN PSub(Pos(h, p), h[p].left_info)
                            ELSE <<RNeg(v2[1]), RNeg(v2[2])>>,
                            v2,
                            PSub(Pos(h, SUCC(h, p)), Pos(h, p))>>} })
    ELSE The({ convolve_all_loop(h, tr1, ks, pen, (lo + hi) \div 2 + 1, hi)
             : tr1 \in {convolve_all_loop(h, tr, ks, pen, lo,
                                          (lo + hi) \div 2)} })

(* convolve_all without trace_top = 0 at its start. *)
convolve_all_noreset(h, tr, knots, pen) ==
    The({ convolve_all_loop(h, [tr EXCEPT !.log = <<>>], ks, pen, 1, Len(ks))
        : ks \in {Visited(h, knots)} })

convolve_all(h, tr, knots, pen) ==
    The({ convolve_all_loop(h, [tr EXCEPT !.trace_top = 0, !.log = <<>>],
                            ks, pen, 1, Len(ks))
        : ks \in {Visited(h, knots)} })

(* sizeof(return_cubic_t): four point_t of two doubles each. *)
SizeofCubic == 64

(* The operand of sizeof in malloc(trace_top * 2/3 * sizeof *trace_top):
   trace_top is a uint32_t and has no pointee, so the text names no
   element type.  The sizes a build can take for it: that of trace_top
   itself (uint32_t), of *trace (point_t) and of *stroke->beziers
   (return_cubic_t). *)
SizeofOperand == {4, 16, SizeofCubic}

(* show_segments with the new pieces stored from index 0, in front of the
   pieces the stroke holds. *)
show_segments_front(st, tr, top, size) ==
    [length |-> st.length + (top + 3) \div 4,
     beziers |-> [i \in 1..((top + 3) \div 4) |->
                     [start |-> tr[4 * i - 3], c1 |-> tr[4 * i - 2],
                      c2 |-> tr[4 * i - 1], end |-> tr[4 * i]]]
                 \o st.beziers,
     allocated |-> IF st.null
                   THEN (((top * 2) \div 3) * size) \div SizeofCubic
                   ELSE st.allocated,
     null |-> FALSE]

(* show_segments: one cubic per four trace points, appended to the stroke.
   allocated is the number of return_cubic_t entries that fit in the bytes
   malloc was called with, size being the value of the sizeof in that
   call. *)
show_segments(st, tr, top, size) ==
    [length |-> st.length + (top + 3) \div 4,
     beziers |-> st.beziers \o
                 [i \in 1..((top + 3) \div 4) |->
                     [start |-> tr[4 * i - 3], c1 |-> tr[4 * i - 2],
                      c2 |-> tr[4 * i - 1], end |-> tr[4 * i]]],
     allocated |-> IF st.null
                   THEN (((top * 2) \div 3) * size) \div SizeofCubic
                   ELSE st.allocated,
     null |-> FALSE]

(***************************************************************************)
(* transforms.c                                                            *)
(***************************************************************************)
(* One row of the matrix product in brush_tf. *)
Row(t, x, y) == RAdd(RAdd(RMul(t[1], x), RMul(t[2], y)), RMul(t[3], One))

(* The do-while loop of brush_tf. *)
RECURSIVE brush_tf_loop(_, _, _, _, _)
brush_tf_loop(h, first, transform, prev, k) ==
    The({ The({ The({ The({
        IF next # first THEN brush_tf_loop(h3, first, transform, k, next)
        ELSE h3
      : h3 \in {IF h2[prev].right_type = kt_explicit
                THEN [h2 EXCEPT ![prev].right_info = out] ELSE h2} })
      : h2 \in {IF h1[next].left_type = kt_explicit
                THEN [h1 EXCEPT ![next].left_info = out] ELSE h1} })
      : h1 \in {[h EXCEPT ![k].x = out[1], ![k].y = out[2]]} })
      : next \in {h[k].succ},
        out \in {<<Row(transform[1], h[k].x, h[k].y),
                   Row(transform[2], h[k].x, h[k].y)>>} })

brush_tf(h, first, transform) ==
    brush_tf_loop(h, first, transform, h[first].pred, first)

RMin(a, b) == IF RLt(b, a) THEN b ELSE a
RMax(a, b) == IF RLt(a, b) THEN b ELSE a

(* The do-while loop of brush_tf_translate: box = <<xmin, xmax, ymin, ymax>>. *)
RECURSIVE bounding_box(_, _, _, _)
bounding_box(h, first, k, box) ==
    The({ IF h[k].succ # first THEN bounding_box(h, first, h[k].succ, b1)
          ELSE b1
        : b1 \in {<<RMin(box[1], h[k].x), RMax(box[2], h[k].x),
                    RMin(box[3], h[k].y), RMax(box[4], h[k].y)>>} })

brush_tf_translate(h, first, dest) ==
    The({ brush_tf(h, first,
                   <<<<One, Zero, RSub(dest[1], RDiv(RAdd(box[1], box[2]), R(2)))>>,
                     <<Zero, One, RSub(dest[2], RDiv(RAdd(box[3], box[4]), R(2)))>>,
                     <<Zero, Zero, One>>>>)
        : box \in {bounding_box(h, first, first,
                     <<h[first].x, h[first].x, h[first].y, h[first].y>>)} })

(***************************************************************************)
(* Observations of a ring, used to state the properties.                   *)
(***************************************************************************)
(* The knots met by following succ from first, first included, until the
   walk is back at first (at most fuel knots). *)
RECURSIVE RingFrom(_, _, _, _)
RingFrom(h, first, k, fuel) ==
    IF fuel = 0 \/ k \notin DOMAIN h THEN <<>>
    ELSE <<k>> \o (IF h[k].succ = first THEN <<>>
                   ELSE RingFrom(h, first, h[k].succ, fuel - 1))

RingSeq(h, first) == RingFrom(h, first, first, Cardinality(DOMAIN h))

Range(f) == {f[i] : i \in DOMAIN f}

TypeSeq(h, first) ==
    LET ks == Ring(h, first)
    IN  [i \in DOMAIN ks |-> <<h[ks[i]].left_type, h[ks[i]].right_type>>]

RECURSIVE SumSeq(_)
SumSeq(q) == IF q = <<>> THEN 0 ELSE Head(q) + SumSeq(Tail(q))


(***************************************************************************)
(* Bounds of the model and the inputs the callers draw from.               *)
(***************************************************************************)
MaxPenKnots == 4
MaxHist == 3
MaxOps == 6
MaxDraws == 2
LongLen == 65
MaxPoolOps == 4
PoolLong == 255

(* Pen points: the diamond and its centre.  Every difference of two of
   them is a multiple of 45 degrees. *)
PenPts == {IPt(1, 0), IPt(0, 1), IPt(0 - 1, 0), IPt(0, 0 - 1), IPt(0, 0)}

Diamond == <<IPt(1, 0), IPt(0, 1), IPt(0 - 1, 0), IPt(0, 0 - 1)>>
Triangle == <<IPt(1, 0), IPt(0, 1), IPt(0 - 1, 0)>>
(* Rings that wind twice. *)
LongPens == {Diamond \o Diamond, Triangle \o Triangle}

(* The pen of brush_make_square. *)
Square == <<Pt(Rat(1, 2), Rat(1, 2)), Pt(Rat(0 - 1, 2), Rat(1, 2)),
            Pt(Rat(0 - 1, 2), Rat(0 - 1, 2)), Pt(Rat(1, 2), Rat(0 - 1, 2))>>

(* Points and curves the path builders are called with. *)
MovePts == {IPt(0, 0)}
PathPts == {IPt(0, 3)}
PathRel == {IPt(3, 0)}
PathCurves == {<<IPt(3, 4), IPt(0, 4), IPt(0, 3)>>}

(* The controls and the end of the straight cubic from (0,0) to (10,0). *)
StraightCubic == <<Pt(Rat(333, 100), Zero), Pt(Rat(667, 100), Zero), IPt(10, 0)>>

(* The controls and the end of the cubic from (0,0) to (10,0) with one
   inflection. *)
InflectionCubic == <<IPt(0, 10), IPt(10, 0 - 10), IPt(10, 0)>>

(* The controls and the end of a cubic from (0,0) to (3,0) whose tangent
   is horizontal at one parameter, an irrational number. *)
HookCubic == <<IPt(0, 1), IPt(0, 3), IPt(3, 0)>>

(* A pen with two vertical sides and two sides of slope -1. *)
Slanted == <<IPt(0, 0), IPt(1, 0 - 1), IPt(1, 0), IPt(0, 1)>>

(* The curves draw_shape is called with. *)
DrawCurves == PathCurves \cup {StraightCubic}

(* brush_make_square traversed the other way round. *)
SquareCW == <<Square[1], Square[4], Square[3], Square[2]>>

(* A pen twice as wide as the square. *)
Rectangle == <<Pt(R(1), Rat(1, 2)), Pt(R(0 - 1), Rat(1, 2)),
               Pt(R(0 - 1), Rat(0 - 1, 2)), Pt(R(1), Rat(0 - 1, 2))>>

DrawPens == {Square, SquareCW, Rectangle}

(* A straight polyline of n segments along the x axis. *)
Polyline(n) == [i \in 1..(n + 1) |-> IPt(i - 1, 0)]

(* The paths draw_shape is called with: each is a list of points joined by
   lineto, closed by pathclose or not, or a moveto followed by a curveto. *)
DrawLines == {<<IPt(0, 0), IPt(0, 3)>>,
              <<IPt(0, 0), IPt(3, 0), IPt(3, 3)>>,
              <<IPt(0, 0), IPt(2, 2)>>,
              Polyline(LongLen)}

PenInputs == UNION {[1..n -> PenPts] : n \in 1..MaxPenKnots} \cup LongPens

(***************************************************************************)
(* Initial state: after knots_init(), nothing built.                       *)
(***************************************************************************)
NoStroke == [length |-> 0, beziers |-> <<>>, allocated |-> 0, null |-> TRUE]

Init ==
    /\ knot = <<>>
    /\ unused_knots = <<>>
    /\ knots_block_count = 0
    /\ path = NULL
    /\ brush = NULL
    /\ return_path = NULL
    /\ tee_stack = <<>>
    /\ tee_top = 0
    /\ tee_peak = 0
    /\ trace = <<>>
    /\ trace_top = 0
    /\ trace_log = <<>>
    /\ stroke = NoStroke
    /\ ret = 0
    /\ pc = "idle"
    /\ fault = "none"
    /\ hist = <<>>

SetMem(m) ==
    /\ knot' = m.knot
    /\ unused_knots' = m.unused_knots
    /\ knots_block_count' = m.knots_block_count

scratchVars == <<tee_stack, tee_top, tee_peak, trace, trace_top, trace_log,
                 stroke>>

(***************************************************************************)
(* Caller: builds a ring with moveto and lineto, closed by pathclose or    *)
(* left as the builders leave it.                                          *)
(***************************************************************************)
(* lineto to pts[lo], ..., pts[hi] in this order; the list is halved to
   keep the evaluation shallow. *)
RECURSIVE LinetoAll(_, _, _, _, _)
LinetoAll(m, first, pts, lo, hi) ==
    IF lo > hi THEN [mem |-> m, result |-> first, ok |-> TRUE]
    ELSE IF lo = hi THEN lineto(m, first, pts[lo])
    ELSE The({ IF ~l.ok THEN l
               ELSE LinetoAll(l.mem, first, pts, (lo + hi) \div 2 + 1, hi)
             : l \in {LinetoAll(m, first, pts, lo, (lo + hi) \div 2)} })

BuildRing(m, pts, closed) ==
    The({ IF ~mv.ok THEN mv
          ELSE The({ IF ~l.ok \/ ~closed THEN l
                     ELSE [l EXCEPT !.mem.knot = pathclose(l.mem.knot, l.result)]
                   : l \in {LinetoAll(mv.mem, mv.result, pts, 2, Len(pts))} })
        : mv \in {moveto(m, pts[1])} })

BrushBuild(pts, closed) ==
    /\ fault = "none" /\ pc = "idle"
    /\ brush = NULL
    /\ \E b \in {BuildRing(Mem, pts, closed)} :
           /\ SetMem(b.mem)
           /\ brush' = b.result
           /\ fault' = IF b.ok THEN "none" ELSE "null_deref"
    /\ UNCHANGED <<path, return_path, scratchVars, ret, pc, hist>>

BrushMake ==
    /\ fault = "none" /\ pc = "idle"
    /\ brush # NULL /\ path = NULL
    /\ Len(hist) < MaxHist
    /\ \E b \in {brush_make(knot, brush)} :
           /\ knot' = b.knot
           /\ ret' = b.result
           /\ hist' = Append(hist, [op |-> "brush_make", ret |-> b.result,
                                    arg |-> brush,
                                    types |-> TypeSeq(knot, brush),
                                    before |-> knot])
    /\ UNCHANGED <<unused_knots, knots_block_count, path, brush, return_path,
                   scratchVars, pc, fault>>

BrushReverse ==
    /\ fault = "none" /\ pc = "idle"
    /\ brush # NULL /\ path = NULL
    /\ Len(hist) < MaxHist
    /\ \E b \in {knots_ring_reverse(knot, brush)} :
           /\ knot' = b.knot
           /\ brush' = b.result
           /\ hist' = Append(hist, [op |-> "knots_ring_reverse", ret |-> 0,
                                    arg |-> brush,
                                    types |-> TypeSeq(knot, brush),
                                    before |-> knot])
    /\ UNCHANGED <<unused_knots, knots_block_count, path, return_path,
                   scratchVars, ret, pc, fault>>

NextPen ==
    \/ \E pts \in PenInputs, closed \in BOOLEAN : BrushBuild(pts, closed)
    \/ BrushMake
    \/ BrushReverse

SpecPen == Init /\ [][NextPen]_vars

(***************************************************************************)
(* Caller: one ring operation at a time on path, each recorded in hist.   *)
(***************************************************************************)
Record(op, result, arg) ==
    hist' = Append(hist, [op |-> op, ret |-> result, arg |-> arg,
                          types |-> IF arg = NULL THEN <<>>
                                    ELSE TypeSeq(knot, arg),
                          before |-> knot])

RingOp == fault = "none" /\ pc = "idle" /\ Len(hist) < MaxOps

(* The outcome r = [mem, result, ok] of a builder that returns the path. *)
PathBuilt(op, r) ==
    /\ SetMem(r.mem)
    /\ path' = r.result
    /\ fault' = IF r.ok THEN "none" ELSE "null_deref"
    /\ Record(op, r.result, path)
    /\ UNCHANGED <<brush, return_path, scratchVars, ret, pc>>

PathMoveto(point) ==
    /\ RingOp /\ path = NULL
    /\ \E r \in {moveto(Mem, point)} : PathBuilt("moveto", r)

PathLineto(point) ==
    /\ RingOp /\ path # NULL
    /\ \E r \in {lineto(Mem, path, point)} : PathBuilt("lineto", r)

PathRLineto(p) ==
    /\ RingOp /\ path # NULL
    /\ \E r \in {rlineto(Mem, path, p)} : PathBuilt("rlineto", r)

PathCurveto(c) ==
    /\ RingOp /\ path # NULL
    /\ \E r \in {curveto(Mem, path, c[1], c[2], c[3])} : PathBuilt("curveto", r)

PathClose ==
    /\ RingOp /\ path # NULL
    /\ knot' = pathclose(knot, path)
    /\ Record("pathclose", path, path)
    /\ UNCHANGED <<unused_knots, knots_block_count, path, brush, return_path,
                   scratchVars, ret, pc, fault>>

PathSplitAtTees ==
    /\ RingOp /\ path # NULL /\ brush # NULL
    /\ \E r \in {split_at_tees(Mem, [tee_stack |-> tee_stack,
                                     tee_top |-> tee_top, peak |-> tee_peak],
                               path, brush)} :
           /\ SetMem(r.mem)
           /\ tee_stack' = r.sc.tee_stack
           /\ tee_top' = r.sc.tee_top
           /\ tee_peak' = r.sc.peak
           /\ fault' = IF r.ok THEN "none" ELSE "null_deref"
    /\ Record("split_at_tees", path, path)
    /\ UNCHANGED <<path, brush, return_path, trace, trace_top, trace_log,
                   stroke, ret, pc>>

PathClone ==
    /\ RingOp /\ path # NULL /\ return_path = NULL
    /\ \E r \in {knots_ring_clone(Mem, path)} :
           /\ SetMem(r.mem)
           /\ return_path' = r.result
           /\ fault' = IF r.ok THEN "none" ELSE "null_deref"
           /\ Record("knots_ring_clone", r.result, path)
    /\ UNCHANGED <<path, brush, scratchVars, ret, pc>>

PathReverse ==
    /\ RingOp /\ path # NULL
    /\ \E r \in {knots_ring_reverse(knot, path)} :
           /\ knot' = r.knot
           /\ path' = r.result
           /\ Record("knots_ring_reverse", r.result, path)
    /\ UNCHANGED <<unused_knots, knots_block_count, brush, return_path,
                   scratchVars, ret, pc, fault>>

NextRing ==
    \/ BrushBuild(Square, TRUE)
    \/ \E point \in MovePts : PathMoveto(point)
    \/ \E point \in PathPts : PathLineto(point)
    \/ \E p \in PathRel : PathRLineto(p)
    \/ \E c \in PathCurves : PathCurveto(c)
    \/ PathClose
    \/ PathSplitAtTees
    \/ PathClone
    \/ PathReverse

SpecRing == Init /\ [][NextRing]_vars

(***************************************************************************)
(* Properties of brush_make                                                *)
(***************************************************************************)
Last(q) == q[Len(q)]
AfterMake == hist # <<>> /\ Last(hist).op = "brush_make"

(* Turn angle at knot k of a ring: direction out of k against direction
   into k. *)
TurnAt(h, k) ==
    LET in  == PSub(Pos(h, k), Pos(h, h[k].pred))
        out == PSub(Pos(h, h[k].succ), Pos(h, k))
    IN  reduce_angle(atan2(out[2], out[1]) - atan2(in[2], in[1]))

ConvexPen(h, first) ==
    LET ks == RingSeq(h, first)
    IN  /\ \A i \in DOMAIN ks : Pos(h, ks[i]) # Pos(h, h[ks[i]].succ)
        /\ \A i \in DOMAIN ks : TurnAt(h, ks[i]) > 0
        /\ SumSeq([i \in DOMAIN ks |-> TurnAt(h, ks[i])]) <= 2 * M_PI

(* C1: brush_make returns +1 exactly when no knot coincides with its
   successor, every reduced turn angle is strictly positive and the turn
   angles of one traversal sum to at most 2 pi; otherwise it returns
   -1, -2 or -3. *)
C1_BrushMakeIffConvex ==
    AfterMake =>
        /\ ret \in {1, 0 - 1, 0 - 2, 0 - 3}
        /\ (ret = 1) <=> ConvexPen(knot, brush)

C1_Witness ==
    /\ AfterMake /\ ret = 1 /\ ConvexPen(knot, brush)
    /\ Len(RingSeq(knot, brush)) = 4

C1_WitnessRejected ==
    /\ AfterMake /\ ret = 0 - 3 /\ ~ConvexPen(knot, brush)

ChordPayloads(h, first) ==
    \A k \in Range(RingSeq(h, first)) :
        LET q == h[k].succ
            d == PSub(Pos(h, q), Pos(h, k))
        IN  /\ h[k].right_info = PAdd(Pos(h, k), PScale(Rat(1, 3), d))
            /\ h[q].left_info = PSub(Pos(h, q), PScale(Rat(1, 3), d))

AllExplicit(h, first) ==
    \A k \in Range(RingSeq(h, first)) :
        h[k].left_type = kt_explicit /\ h[k].right_type = kt_explicit

(* C2 as stated: after brush_make returns +1 on a ring of at least 3 knots
   every side is Explicit and the payloads lie at 1/3 and 2/3 of the chord. *)
C2_AllSidesExplicit ==
    (AfterMake /\ ret = 1 /\ Len(RingSeq(knot, brush)) >= 3) =>
        AllExplicit(knot, brush) /\ ChordPayloads(knot, brush)

(* C2 amended: after brush_make returns +1 on a ring of at least 3 knots
   the payloads lie at 1/3 and 2/3 of the chord of each edge, and every
   type tag is what it was before the call. *)
C2_PayloadsSetTypesKept ==
    (AfterMake /\ ret = 1 /\ Len(RingSeq(knot, brush)) >= 3) =>
        /\ ChordPayloads(knot, brush)
        /\ TypeSeq(knot, brush) = Last(hist).types

C2_Witness ==
    /\ AfterMake /\ ret = 1 /\ Len(RingSeq(knot, brush)) >= 3
    /\ ~AllExplicit(knot, brush)
    /\ ChordPayloads(knot, brush)

(* C9: when brush_make returned +1 on a ring, brush_make on the reversed
   ring returns -2. *)
C9_ReversedPenNonLeft ==
    (/\ Len(hist) = 3
     /\ hist[1].op = "brush_make" /\ hist[1].ret = 1
     /\ hist[2].op = "knots_ring_reverse"
     /\ hist[3].op = "brush_make") => hist[3].ret = 0 - 2

C9_Witness ==
    /\ Len(hist) = 3
    /\ hist[1].op = "brush_make" /\ hist[1].ret = 1
    /\ hist[2].op = "knots_ring_reverse"
    /\ hist[3].op = "brush_make" /\ hist[3].ret = 0 - 2
    /\ hist[3].arg = brush

(***************************************************************************)
(* Caller of draw_shape: builds a pen and a path, then draws.  draw_shape  *)
(* is taken one call at a time; pc names the call that runs next.          *)
(***************************************************************************)
Idle == fault = "none" /\ pc = "idle"

PathBuild(pts, closed) ==
    /\ Idle /\ path = NULL
    /\ \E b \in {BuildRing(Mem, pts, closed)} :
           /\ SetMem(b.mem)
           /\ path' = b.result
           /\ fault' = IF b.ok THEN "none" ELSE "null_deref"
    /\ UNCHANGED <<brush, return_path, scratchVars, ret, pc, hist>>

PathBuildCurve(c) ==
    /\ Idle /\ path = NULL
    /\ \E b \in {The({ IF ~mv.ok THEN mv
                       ELSE curveto(mv.mem, mv.result, c[1], c[2], c[3])
                     : mv \in {moveto(Mem, IPt(0, 0))} })} :
           /\ SetMem(b.mem)
           /\ path' = b.result
           /\ fault' = IF b.ok THEN "none" ELSE "null_deref"
    /\ UNCHANGED <<brush, return_path, scratchVars, ret, pc, hist>>

(* stroke = malloc; length = 0; beziers = NULL. *)
DrawShape ==
    /\ Idle /\ path # NULL /\ brush # NULL
    /\ Len(hist) < MaxDraws
    /\ stroke' = NoStroke
    /\ ret' = 0
    /\ pc' = "brush_make"
    /\ UNCHANGED <<knot, unused_knots, knots_block_count, path, brush,
                   return_path, tee_stack, tee_top, tee_peak, trace, trace_top,
                   trace_log, fault, hist>>

(* brush_make(brush): the value returned is dropped by draw_shape; ret
   keeps it for the properties. *)
DrawBrushMake ==
    /\ fault = "none" /\ pc = "brush_make"
    /\ \E b \in {brush_make(knot, brush)} :
           /\ knot' = b.knot
           /\ ret' = b.result
           /\ hist' = Append(hist, [op |-> "brush_make", ret |-> b.result,
                                    arg |-> brush,
                                    types |-> TypeSeq(knot, brush),
                                    before |-> knot])
    /\ pc' = "brush_tf_translate"
    /\ UNCHANGED <<unused_knots, knots_block_count, path, brush, return_path,
                   scratchVars, fault>>

DrawTranslate ==
    /\ fault = "none" /\ pc = "brush_tf_translate"
    /\ knot' = brush_tf_translate(knot, brush, IPt(0, 0))
    /\ pc' = "split_at_tees"
    /\ UNCHANGED <<unused_knots, knots_block_count, path, brush, return_path,
                   scratchVars, ret, fault, hist>>

DrawSplit ==
    /\ fault = "none" /\ pc = "split_at_tees"
    /\ \E r \in {split_at_tees(Mem, [tee_stack |-> tee_stack,
                                     tee_top |-> tee_top, peak |-> tee_peak],
                               path, brush)} :
           /\ SetMem(r.mem)
           /\ tee_stack' = r.sc.tee_stack
           /\ tee_top' = r.sc.tee_top
           /\ tee_peak' = r.sc.peak
           /\ fault' = IF ~r.ok THEN "null_deref"
                       ELSE IF r.sc.peak > 2 * PEN_MAX THEN "tee_stack_overflow"
                       ELSE "none"
    /\ pc' = "convolve_all"
    /\ UNCHANGED <<path, brush, return_path, trace, trace_top, trace_log,
                   stroke, ret, hist>>

(* convolve_all(knots, brush), then at pc = next. *)
Convolved(knots, next) ==
    /\ \E tr \in {convolve_all(knot, [trace |-> trace, trace_top |-> trace_top,
                                      log |-> trace_log], knots, brush)} :
           /\ trace' = tr.trace
           /\ trace_top' = tr.trace_top
           /\ trace_log' = tr.log
           /\ fault' = IF tr.trace_top > TRACE_MAX THEN "trace_overflow"
                       ELSE "none"
    /\ pc' = next
    /\ UNCHANGED <<knot, unused_knots, knots_block_count, path, brush,
                   return_path, tee_stack, tee_top, tee_peak, stroke, ret, hist>>

DrawConvolve ==
    /\ fault = "none" /\ pc = "convolve_all"
    /\ Convolved(path, "show_segments")

(* show_segments(stroke), then at pc = next.  malloc(0) returns NULL or a
   pointer; with NULL show_segments calls exit.  A piece stored past the
   end of the allocated array is a fault. *)
Shown(next) ==
    /\ \E null \in IF stroke.null /\ (trace_top * 2) \div 3 = 0
                   THEN BOOLEAN ELSE {FALSE},
          size \in IF stroke.null THEN SizeofOperand ELSE {SizeofCubic} :
           IF null
           THEN /\ pc' = "exit"
                /\ UNCHANGED <<stroke, fault>>
           ELSE \E st \in {show_segments(stroke, trace, trace_top, size)} :
                    /\ pc' = next
                    /\ stroke' = st
                    /\ fault' = IF st.length > st.allocated
                                THEN "beziers_overflow" ELSE "none"
    /\ UNCHANGED <<knot, unused_knots, knots_block_count, path, brush,
                   return_path, tee_stack, tee_top, tee_peak, trace, trace_top,
                   trace_log, ret, hist>>

DrawShow ==
    /\ fault = "none" /\ pc = "show_segments"
    /\ Shown("return_path")

(* return_path = knots_ring_reverse(knots_ring_clone(path)). *)
DrawReturnPath ==
    /\ fault = "none" /\ pc = "return_path"
    /\ \E c \in {knots_ring_clone(Mem, path)} :
           IF ~c.ok
           THEN /\ SetMem(c.mem)
                /\ fault' = "null_deref"
                /\ UNCHANGED return_path
           ELSE \E r \in {knots_ring_reverse(c.mem.knot, c.result)} :
                    /\ SetMem([c.mem EXCEPT !.knot = r.knot])
                    /\ return_path' = r.result
                    /\ fault' = "none"
    /\ pc' = "convolve_all_return"
    /\ UNCHANGED <<path, brush, scratchVars, ret, hist>>

DrawConvolveReturn ==
    /\ fault = "none" /\ pc = "convolve_all_return"
    /\ Convolved(return_path, "show_segments_return")

DrawShowReturn ==
    /\ fault = "none" /\ pc = "show_segments_return"
    /\ Shown("knots_ring_free")

(* knots_ring_free(path); knots_ring_free(return_path); return stroke. *)
DrawFree ==
    /\ fault = "none" /\ pc = "knots_ring_free"
    /\ SetMem(knots_ring_free(knots_ring_free(Mem, path), return_path))
    /\ path' = NULL
    /\ return_path' = NULL
    /\ pc' = "idle"
    /\ UNCHANGED <<brush, scratchVars, ret, fault, hist>>

NextDraw ==
    \/ \E pts \in DrawPens : BrushBuild(pts, TRUE)
    \/ \E pts \in DrawLines, closed \in BOOLEAN : PathBuild(pts, closed)
    \/ \E c \in DrawCurves : PathBuildCurve(c)
    \/ DrawShape
    \/ DrawBrushMake
    \/ DrawTranslate
    \/ DrawSplit
    \/ DrawConvolve
    \/ DrawShow
    \/ DrawReturnPath
    \/ DrawConvolveReturn
    \/ DrawShowReturn
    \/ DrawFree

SpecDraw == Init /\ [][NextDraw]_vars

(***************************************************************************)
(* Rings of SpecRing                                                       *)
(***************************************************************************)
LiveRings == {path, brush, return_path} \ {NULL}

(* The knots linked to first in either direction, to any depth. *)
RECURSIVE Linked(_, _, _)
Linked(h, seen, fuel) ==
    IF fuel = 0 THEN seen
    ELSE The({ IF more = seen THEN seen ELSE Linked(h, more, fuel - 1)
             : more \in {seen \cup {h[k].succ : k \in seen \cap DOMAIN h}
                              \cup {h[k].pred : k \in seen \cap DOMAIN h}} })

RingKnots(h, first) == Linked(h, {first}, Cardinality(DOMAIN h) + 1)

(* Following succ from k comes back to k. *)
ReturnsTo(h, k) ==
    \E n \in 1..Cardinality(DOMAIN h) :
        /\ Len(RingFrom(h, k, k, n)) = n
        /\ h[RingFrom(h, k, k, n)[n]].succ = k

(* C6: every knot of every live ring has succ(pred(k)) = k and
   pred(succ(k)) = k, and following succ from it returns to it, after any
   sequence of moveto, lineto, rlineto, curveto, pathclose, split_at_tees,
   knots_ring_clone and knots_ring_reverse. *)
C6_RingIntegrity ==
    fault = "none" =>
        \A first \in LiveRings : \A k \in RingKnots(knot, first) :
            /\ k \in DOMAIN knot
            /\ knot[k].pred \in DOMAIN knot /\ knot[k].succ \in DOMAIN knot
            /\ knot[knot[k].pred].succ = k
            /\ knot[knot[k].succ].pred = k
            /\ ReturnsTo(knot, k)

Ops == {hist[i].op : i \in DOMAIN hist}

(* A split has inserted a knot, a clone exists and path was reversed. *)
C6_Witness ==
    /\ fault = "none" /\ path # NULL /\ return_path # NULL
    /\ Len(hist) = MaxOps
    /\ Last(hist).op = "split_at_tees"
    /\ Cardinality(DOMAIN knot) > Cardinality(DOMAIN Last(hist).before)
    /\ "knots_ring_clone" \in Ops

(* path was built by moveto and one or more of lineto, rlineto, curveto,
   with no pathclose and no reversal; split_at_tees may have run on it. *)
OpenBuilt ==
    /\ fault = "none" /\ path # NULL
    /\ Ops \subseteq {"moveto", "lineto", "rlineto", "curveto",
                      "split_at_tees", "knots_ring_clone"}
    /\ Ops \cap {"lineto", "rlineto", "curveto"} # {}

RightRegular(h, first) ==
    {k \in Range(RingSeq(h, first)) : h[k].right_type = kt_regular}

(* C7 as stated: on such a path exactly one knot has right = Regular and
   every other knot is Explicit on both sides. *)
C7_OthersExplicitBothSides ==
    OpenBuilt =>
        /\ Cardinality(RightRegular(knot, path)) = 1
        /\ \A k \in Range(RingSeq(knot, path)) \ RightRegular(knot, path) :
               /\ knot[k].left_type = kt_explicit
               /\ knot[k].right_type = kt_explicit

(* C7, amended: exactly one knot has right = Regular, it is the last knot
   (the predecessor of the start knot) and its left side is Explicit; the
   start knot has left = Open and right = Explicit; every knot between
   them is Explicit on both sides. *)
C7_OneRegularStartOpen ==
    OpenBuilt =>
        /\ RightRegular(knot, path) = {knot[path].pred}
        /\ knot[knot[path].pred].left_type = kt_explicit
        /\ knot[path].left_type = kt_open
        /\ knot[path].right_type = kt_explicit
        /\ \A k \in Range(RingSeq(knot, path)) \ {path, knot[path].pred} :
               /\ knot[k].left_type = kt_explicit
               /\ knot[k].right_type = kt_explicit

(* An open path that split_at_tees has cut into more segments. *)
C7_Witness ==
    /\ OpenBuilt
    /\ Last(hist).op = "split_at_tees"
    /\ Cardinality(DOMAIN knot) > Cardinality(DOMAIN Last(hist).before)
    /\ Len(RingSeq(knot, path)) >= 4

(* The ring at first is closed (no Regular or Open side) or open with one
   right = Regular knot. *)
WellFormedRing(h, first) ==
    LET ks == Range(RingSeq(h, first))
    IN  \/ \A k \in ks : /\ h[k].left_type = kt_explicit
                         /\ h[k].right_type = kt_explicit
        \/ Cardinality({k \in ks : h[k].right_type = kt_regular}) = 1

(* The last two operations were knots_ring_reverse on path, the second on
   the ring the first returned. *)
TwoReversals ==
    /\ Len(hist) >= 2
    /\ hist[Len(hist) - 1].op = "knots_ring_reverse"
    /\ Last(hist).op = "knots_ring_reverse"
    /\ Last(hist).arg = hist[Len(hist) - 1].ret
    /\ Last(hist).ret = path

(* C10: two reversals of a well-formed ring return the original first knot
   and leave every knot with its position, its two side descriptors (type
   and payload) and its links as they were. *)
C10_ReverseInvolution ==
    (TwoReversals /\ WellFormedRing(hist[Len(hist) - 1].before,
                                    hist[Len(hist) - 1].arg)) =>
        /\ path = hist[Len(hist) - 1].arg
        /\ \A k \in Range(RingSeq(hist[Len(hist) - 1].before,
                                  hist[Len(hist) - 1].arg)) :
               knot[k] = hist[Len(hist) - 1].before[k]

(* The ring at first is closed, or it is open as the builders leave it:
   the last knot is the one with right = Regular and the first knot has
   left = Open. *)
BuilderShaped(h, first) ==
    LET ks == Range(RingSeq(h, first))
    IN  \/ \A k \in ks : /\ h[k].left_type = kt_explicit
                         /\ h[k].right_type = kt_explicit
        \/ /\ {k \in ks : h[k].right_type = kt_regular} = {h[first].pred}
           /\ h[first].left_type = kt_open

(* C10, amended: two reversals of a ring that is closed, or open with
   right = Regular on its last knot and left = Open on its first knot,
   return the original first knot and leave every knot with its position,
   its two side descriptors (type and payload) and its links as they were.
   On an open ring whose first knot has an Explicit left side the two
   reversals leave that side Open. *)
C10_ReverseInvolutionOpenStart ==
    (TwoReversals /\ BuilderShaped(hist[Len(hist) - 1].before,
                                   hist[Len(hist) - 1].arg)) =>
        /\ path = hist[Len(hist) - 1].arg
        /\ \A k \in Range(RingSeq(hist[Len(hist) - 1].before,
                                  hist[Len(hist) - 1].arg)) :
               knot[k] = hist[Len(hist) - 1].before[k]

C10_Witness ==
    /\ TwoReversals
    /\ BuilderShaped(hist[Len(hist) - 1].before, hist[Len(hist) - 1].arg)
    /\ Len(RingSeq(knot, path)) >= 3
    /\ knot[path].left_type = kt_open
    /\ hist[Len(hist) - 1].ret # hist[Len(hist) - 1].arg

(***************************************************************************)
(* Properties of draw_shape and the convolution (SpecDraw)                 *)
(***************************************************************************)
(* C3: when brush_make has returned a negative code for the pen of a
   draw_shape call, the call goes no further: nothing is subdivided or
   convolved with that pen and the stroke stays empty. *)
C3_NegativeCodeEndsAttempt ==
    ret < 0 =>
        /\ pc \in {"idle", "brush_tf_translate"}
        /\ stroke.length = 0
        /\ trace_top = 0

(* C8: tee_top never exceeds the capacity of tee_stack and trace_top never
   exceeds TRACE_MAX, so every write of make_move is inside trace. *)
C8_ScratchBuffersInBounds ==
    /\ tee_peak <= 2 * PEN_MAX
    /\ trace_top <= TRACE_MAX
    /\ Len(trace) <= TRACE_MAX

(* convolve_all has just run on ring Convolved_ring and stayed in trace. *)
ConvolveDone ==
    fault = "none" /\ pc \in {"show_segments", "show_segments_return"}

ConvolvedRing == IF pc = "show_segments" THEN path ELSE return_path

(* The path knots convolve_all has visited, in order. *)
Segments == Visited(knot, ConvolvedRing)
PenKnots == RingSeq(knot, brush)

IndexOf(q, x) == CHOOSE i \in DOMAIN q : q[i] = x

(* The arguments convolve_all passes for path knot p, and the two edge
   vectors of pen knot r. *)
V2(p) == PSub(knot[p].right_info, Pos(knot, p))
V1(p) == IF kt_explicit = knot[p].left_type
         THEN PSub(Pos(knot, p), knot[p].left_info)
         ELSE <<RNeg(V2(p)[1]), RNeg(V2(p)[2])>>
V3(p) == PSub(Pos(knot, SUCC(knot, p)), Pos(knot, p))
V4(r) == PSub(Pos(knot, r), Pos(knot, PRED(knot, r)))
V5(r) == PSub(Pos(knot, SUCC(knot, r)), Pos(knot, r))

(* The i-th piece of the trace. *)
Piece(i) == <<trace[4 * i - 3], trace[4 * i - 2], trace[4 * i - 1], trace[4 * i]>>

(* The segment a -> succ(a) translated by the position of b. *)
Translated(a, b) ==
    <<PAdd(Pos(knot, a), Pos(knot, b)),
      PAdd(knot[a].right_info, Pos(knot, b)),
      PAdd(knot[SUCC(knot, a)].left_info, Pos(knot, b)),
      PAdd(Pos(knot, SUCC(knot, a)), Pos(knot, b))>>

(* The pieces written for path knot p and pen knot r by the make_move call
   that within_turn(v1, v2, v5) guards (branch 1) or by the one that
   within_turn(v4, v5, v3) guards (branch 2). *)
PiecesOf(p, r, branch) ==
    {i \in DOMAIN trace_log :
        /\ trace_log[i].branch = branch
        /\ IF branch = 1
           THEN trace_log[i].first = p /\ trace_log[i].second = r
           ELSE trace_log[i].first = r /\ trace_log[i].second = p}

(* C4 as stated: within_turn(v1, v2, v5) emits the path segment translated
   by the pen knot, and within_turn(v4, v5, v3) emits the pen edge
   translated by the path knot. *)
C4_TurnEmitsPathSegment ==
    ConvolveDone =>
        \A p \in Range(Segments), r \in Range(PenKnots) :
            /\ within_turn(V1(p), V2(p), V5(r)) =>
                   \E i \in PiecesOf(p, r, 1) : Piece(i) = Translated(p, r)
            /\ within_turn(V4(r), V5(r), V3(p)) =>
                   \E i \in PiecesOf(p, r, 2) : Piece(i) = Translated(r, p)

(* C4, amended: in convolve(p, v1, v2, v3, r), within_turn(v1, v2, v5)
   emits the pen edge r -> s translated by the path knot p,
   (r + p, r.right + p, s.left + p, s + p), and within_turn(v4, v5, v3)
   emits the path segment p -> q translated by the pen knot r,
   (p + r, p.right + r, q.left + r, q + r); nothing else is emitted. *)
C4_TurnEmitsPenEdge ==
    ConvolveDone =>
        /\ trace_top = 4 * Len(trace_log)
        /\ \A p \in Range(Segments), r \in Range(PenKnots) :
            /\ Cardinality(PiecesOf(p, r, 1)) =
                   (IF within_turn(V1(p), V2(p), V5(r)) THEN 1 ELSE 0)
            /\ Cardinality(PiecesOf(p, r, 2)) =
                   (IF within_turn(V4(r), V5(r), V3(p)) THEN 1 ELSE 0)
            /\ \A i \in PiecesOf(p, r, 1) : Piece(i) = Translated(r, p)
            /\ \A i \in PiecesOf(p, r, 2) : Piece(i) = Translated(p, r)
        /\ \A i \in DOMAIN trace_log :
               \E p \in Range(Segments), r \in Range(PenKnots) :
                   i \in PiecesOf(p, r, 1) \cup PiecesOf(p, r, 2)

(* Both calls of make_move have run for one pair, on a path that was cut. *)
C4_Witness ==
    /\ ConvolveDone
    /\ Len(Segments) >= 3
    /\ \E p \in Range(Segments), r \in Range(PenKnots) :
           /\ PiecesOf(p, r, 1) # {} /\ PiecesOf(p, r, 2) # {}
           /\ Translated(p, r) # Translated(r, p)

(* Path knot, pen knot and branch of the i-th piece. *)
PieceKey(i) ==
    LET e == trace_log[i]
    IN  IF e.branch = 1
        THEN <<IndexOf(Segments, e.first), IndexOf(PenKnots, e.second), 1>>
        ELSE <<IndexOf(Segments, e.second), IndexOf(PenKnots, e.first), 2>>

LexLess(a, b) ==
    \/ a[1] < b[1]
    \/ a[1] = b[1] /\ a[2] < b[2]
    \/ a[1] = b[1] /\ a[2] = b[2] /\ a[3] < b[3]

(* C5: in the trace the pieces of an earlier path segment come before
   those of a later one; within a segment those of an earlier pen knot come
   first; for one pair the piece of within_turn(v1, v2, v5) comes before
   the piece of within_turn(v4, v5, v3). *)
C5_TraceOrdered ==
    ConvolveDone =>
        \A i, j \in DOMAIN trace_log :
            i < j => LexLess(PieceKey(i), PieceKey(j))

(* Several segments, several pen knots, and a pair with both pieces. *)
C5_Witness ==
    /\ ConvolveDone
    /\ pc = "show_segments_return"
    /\ Len(Segments) >= 2
    /\ \E i, j \in DOMAIN trace_log :
           /\ PieceKey(i)[1] # PieceKey(j)[1]
    /\ \E i, j \in DOMAIN trace_log :
           /\ PieceKey(i)[1] = PieceKey(j)[1] /\ PieceKey(i)[2] # PieceKey(j)[2]
    /\ \E i \in DOMAIN trace_log : i + 1 \in DOMAIN trace_log
           /\ PieceKey(i)[1] = PieceKey(i + 1)[1]
           /\ PieceKey(i)[2] = PieceKey(i + 1)[2]

(***************************************************************************)
(* Emission determinism                                                    *)
(***************************************************************************)
(* What convolve_all leaves in trace[0 .. trace_top - 1] when it is called
   on the ring it has just run on, with the pen, from scratch buffers that
   have never been written. *)
FreshTrace ==
    The({ [trace_top |-> tr.trace_top,
           trace |-> SubSeq(tr.trace, 1, tr.trace_top)]
        : tr \in {convolve_all(knot, [trace |-> <<>>, trace_top |-> 0,
                                      log |-> <<>>], ConvolvedRing, brush)} })

(* C11: the trace convolve_all leaves (trace_top and the trace_top points
   below it) is a function of the path ring and the pen ring alone: it is
   what the same call leaves from untouched buffers, whatever the earlier
   split_at_tees, convolve_all and show_segments calls left in tee_stack
   and trace. *)
C11_TraceDependsOnRingsOnly ==
    ConvolveDone =>
        /\ trace_top = FreshTrace.trace_top
        /\ SubSeq(trace, 1, trace_top) = FreshTrace.trace

(* The return sweep has run on buffers the forward sweep and split_at_tees
   left non-empty, and more points are stored in trace than it wrote. *)
C11_Witness ==
    /\ ConvolveDone /\ pc = "show_segments_return"
    /\ stroke.length > 0 /\ tee_stack # <<>>
    /\ trace_top > 0 /\ Len(trace) > trace_top

(***************************************************************************)
(* Caller of the knot pool: knots_get on its own, rings built by moveto    *)
(* and lineto, knots_ring_clone and knots_ring_free, in any order.         *)
(***************************************************************************)
PoolOp == fault = "none" /\ pc = "idle" /\ Len(hist) < MaxPoolOps

(* The polylines the pool's caller builds. *)
PoolLines == {Polyline(1), Polyline(2), Polyline(PoolLong)}

(* k = knots_get(); the caller keeps k to itself. *)
PoolGet ==
    /\ PoolOp
    /\ \E g \in {knots_get(Mem)} :
           /\ SetMem(g.mem)
           /\ Record("knots_get", g.result, NULL)
    /\ UNCHANGED <<path, brush, return_path, scratchVars, ret, pc, fault>>

(* path = moveto(pts[1]); lineto(path, pts[2]); ... *)
PoolBuild(pts) ==
    /\ PoolOp /\ path = NULL
    /\ \E b \in {BuildRing(Mem, pts, FALSE)} :
           /\ SetMem(b.mem)
           /\ path' = b.result
           /\ fault' = IF b.ok THEN "none" ELSE "null_deref"
           /\ Record("moveto", b.result, NULL)
    /\ UNCHANGED <<brush, return_path, scratchVars, ret, pc>>

PoolClone ==
    /\ PoolOp /\ path # NULL /\ return_path = NULL
    /\ \E r \in {knots_ring_clone(Mem, path)} :
           /\ SetMem(r.mem)
           /\ return_path' = r.result
           /\ fault' = IF r.ok THEN "none" ELSE "null_deref"
           /\ Record("knots_ring_clone", r.result, path)
    /\ UNCHANGED <<path, brush, scratchVars, ret, pc>>

(* knots_ring_free(path) *)
PoolFree ==
    /\ PoolOp /\ path # NULL
    /\ SetMem(knots_ring_free(Mem, path))
    /\ path' = NULL
    /\ Record("knots_ring_free", NULL, path)
    /\ UNCHANGED <<brush, return_path, scratchVars, ret, pc, fault>>

(* knots_ring_free(return_path) *)
PoolFreeClone ==
    /\ PoolOp /\ return_path # NULL
    /\ SetMem(knots_ring_free(Mem, return_path))
    /\ return_path' = NULL
    /\ Record("knots_ring_free", NULL, return_path)
    /\ UNCHANGED <<path, brush, scratchVars, ret, pc, fault>>

NextPool ==
    \/ PoolGet
    \/ \E pts \in PoolLines : PoolBuild(pts)
    \/ PoolClone
    \/ PoolFree
    \/ PoolFreeClone

SpecPool == Init /\ [][NextPool]_vars

(***************************************************************************)
(* Properties of the knot pool (SpecPool)                                  *)
(***************************************************************************)
(* The knots of the rings in use. *)
InRings == UNION {Range(Ring(knot, f)) : f \in LiveRings}

(* C12: every knots_get returns a knot, never NULL, and the knot is then
   neither in the free pool nor in a ring in use.  A call made inside
   moveto, lineto or knots_ring_clone that returns NULL is seen as the NULL
   dereference of its caller; the knots those calls returned are the knots
   of the rings. *)
C12_KnotsGetFresh ==
    /\ fault # "null_deref"
    /\ InRings \cap Range(unused_knots) = {}
    /\ (hist # <<>> /\ Last(hist).op = "knots_get") =>
           /\ Last(hist).ret # NULL
           /\ Last(hist).ret \notin Range(unused_knots)
           /\ Last(hist).ret \notin InRings

(***************************************************************************)
(* Knot conservation                                                       *)
(***************************************************************************)
(* The knots of the blocks calloc has returned so far. *)
BlockKnots == 1..(knots_block_count * KNOTS_INCREMENT)

(* C13: every knot of every allocated block is in the free pool (once) or
   in exactly one ring in use, never in neither and never in two places;
   so when draw_shape has returned, every knot outside the pen is back in
   the pool. *)
C13_KnotConservation ==
    /\ BlockKnots = Range(unused_knots) \cup InRings
    /\ Range(unused_knots) \cap InRings = {}
    /\ Cardinality(Range(unused_knots)) = Len(unused_knots)
    /\ \A f, g \in LiveRings :
           Range(Ring(knot, f)) \cap Range(Ring(knot, g)) # {} =>
               Range(Ring(knot, f)) = Range(Ring(knot, g))

(***************************************************************************)
(* The pen during draw_shape                                               *)
(***************************************************************************)
(* The heap as the last brush_make left it. *)
PenAfterMake == brush_make(Last(hist).before, Last(hist).arg).knot

(* C14: from the return of brush_make to the end of draw_shape every pen
   knot keeps the position, control payloads, type tags and links that
   brush_make left. *)
C14_PenUnchangedAfterMake ==
    (AfterMake /\ Last(hist).arg = brush /\ pc # "brush_make") =>
        \A k \in Range(Ring(PenAfterMake, brush)) : knot[k] = PenAfterMake[k]

(***************************************************************************)
(* Properties of show_segments                                             *)
(***************************************************************************)
(* A show_segments call that has stored every piece inside the array. *)
ShowStep ==
    /\ pc \in {"show_segments", "show_segments_return"}
    /\ pc' \in {"return_path", "knots_ring_free"}
    /\ fault' = "none"

(* C15: show_segments appends.  With n = stroke.length and T = trace_top
   before the call, afterwards stroke.length = n + T/4, beziers[n + i] is
   (start, c1, c2, end) = (trace[4i], trace[4i+1], trace[4i+2], trace[4i+3])
   for every i < T/4, and beziers[0 .. n-1] are as before; the pieces of
   the forward sweep thus stay in front of those of the return sweep. *)
C15_ShowSegmentsAppends ==
    [][ShowStep =>
         /\ trace_top % 4 = 0
         /\ stroke'.length = stroke.length + trace_top \div 4
         /\ Len(stroke'.beziers) = stroke'.length
         /\ \A i \in 1..(trace_top \div 4) :
                stroke'.beziers[stroke.length + i] =
                    [start |-> trace[4 * i - 3], c1 |-> trace[4 * i - 2],
                     c2 |-> trace[4 * i - 1], end |-> trace[4 * i]]
         /\ SubSeq(stroke'.beziers, 1, stroke.length) = stroke.beziers]_vars

(* The second call has appended the return sweep's pieces to a stroke that
   held those of the forward sweep, and the two sweeps differ. *)
C15_Witness ==
    /\ fault = "none" /\ pc = "knots_ring_free"
    /\ trace_top > 0 /\ stroke.length > trace_top \div 4
    /\ stroke.beziers[1] # stroke.beziers[stroke.length - trace_top \div 4 + 1]

(* C16: the array the first show_segments call allocates has room for the
   pieces of both sweeps: stroke.length never exceeds the number of
   entries allocated. *)
C16_StrokeFitsAllocation ==
    ~stroke.null => stroke.length <= stroke.allocated

(***************************************************************************)
(* Properties of knots_ring_clone (SpecRing)                               *)
(***************************************************************************)
AfterClone ==
    /\ fault = "none" /\ hist # <<>>
    /\ Last(hist).op = "knots_ring_clone"

(* What knots_copy copies. *)
Payload(h, k) ==
    <<h[k].x, h[k].y, h[k].left_type, h[k].right_type,
      h[k].left_info, h[k].right_info>>

(* C17: knots_ring_clone(first) returns the first knot of a ring of knots
   that were in no ring before, as many as the original has; the k-th knot
   of the copy has the position, side types and side payloads of the k-th
   knot of the original counted from first; the original is unchanged, and
   knots_ring_free on the copy frees no knot of the original. *)
C17_CloneIndependentCopy ==
    AfterClone =>
        LET before == Last(hist).before
            orig == Ring(before, Last(hist).arg)
            copy == Ring(knot, return_path)
            freed == knots_ring_free(Mem, return_path)
        IN  /\ Last(hist).ret = return_path
            /\ Len(copy) = Len(orig)
            /\ Range(copy) \cap Range(orig) = {}
            /\ \A k \in Range(copy) :
                   k \notin DOMAIN before \/ before[k].succ = NULL
            /\ \A i \in DOMAIN orig :
                   Payload(knot, copy[i]) = Payload(before, orig[i])
            /\ \A i \in DOMAIN copy :
                   /\ knot[copy[i]].succ = copy[(i % Len(copy)) + 1]
                   /\ knot[copy[(i % Len(copy)) + 1]].pred = copy[i]
            /\ \A k \in Range(orig) : knot[k] = before[k]
            /\ Range(orig) \cap Range(freed.unused_knots) = {}
            /\ \A k \in Range(orig) : freed.knot[k] = knot[k]

(* A ring with a curve that split_at_tees has cut has been copied. *)
C17_Witness ==
    /\ AfterClone
    /\ Len(Ring(knot, return_path)) >= 4
    /\ "split_at_tees" \in Ops
    /\ \E k \in Range(Ring(knot, return_path)) :
           /\ knot[k].left_type = kt_explicit /\ knot[k].right_type = kt_explicit
           /\ knot[k].left_info # Pos(knot, k)

(***************************************************************************)
(* Pens whose third knot lies on the first (SpecPen)                       *)
(***************************************************************************)
(* The ring brush_make was last called on, from the knot passed in. *)
MadePen == Ring(knot, Last(hist).arg)

ThirdOnFirst ==
    /\ AfterMake /\ Len(MadePen) >= 3
    /\ Pos(knot, MadePen[3]) = Pos(knot, MadePen[1])

(* Some knot of the ring has the position of its successor. *)
ZeroEdge == \E k \in Range(MadePen) : Pos(knot, k) = Pos(knot, knot[k].succ)

(* C18 as stated: whatever the number of knots, a pen whose third knot has
   the position of its first makes brush_make return -1. *)
C18_ThirdOnFirstIsDuplicate ==
    ThirdOnFirst => ret = 0 - 1

(* C18, amended: on a ring of exactly three knots whose third knot has the
   position of the first, brush_make returns -1, the third knot being the
   predecessor of the first.  On a longer ring brush_make returns -1 only
   when some knot has the position of its successor; otherwise the code
   is negative but not -1. *)
C18_ThreeKnotsDuplicate ==
    ThirdOnFirst =>
        /\ Len(MadePen) = 3 => ret = 0 - 1
        /\ ret = 0 - 1 => ZeroEdge
        /\ ret < 0

(* A ring a, b, a, c of four knots, no two successive knots on the same
   point: brush_make has returned -2. *)
C18_Witness ==
    /\ ThirdOnFirst /\ Len(MadePen) = 4 /\ ~ZeroEdge
    /\ Pos(knot, MadePen[4]) # Pos(knot, MadePen[2])
    /\ ret = 0 - 2

(***************************************************************************)
(* Scenario: square pen, straight path (SpecDraw)                          *)
(***************************************************************************)
(* draw_shape has called brush_make and has not returned. *)
InDraw == hist # <<>> /\ pc \notin {"idle", "brush_make"}

(* The positions of the pen and the path draw_shape was called with, read
   from the heap as it was when brush_make was called. *)
DrawnPen ==
    The({ [i \in 1..Len(r) |-> Pos(Last(hist).before, r[i])]
        : r \in {Ring(Last(hist).before, brush)} })

(* The points of the path when it is a single cubic, <<>> otherwise. *)
DrawnCubic ==
    The({ IF Len(r) # 2 THEN <<>>
          ELSE <<Pos(h, r[1]), h[r[1]].right_info, h[r[2]].left_info,
                 Pos(h, r[2])>>
        : h \in {Last(hist).before}, r \in {Ring(Last(hist).before, path)} })

SquareOnStraight ==
    /\ InDraw
    /\ DrawnPen = Square
    /\ DrawnCubic = <<IPt(0, 0)>> \o StraightCubic

AfterSplit == pc \notin {"idle", "brush_make", "brush_tf_translate",
                         "split_at_tees"}

(* The number of pieces of the last sweep that convolve wrote on its first
   (pen edge) and on its second (path segment) branch. *)
PiecesOnBranch(b) == Cardinality({i \in 1..Len(trace_log) : trace_log[i].branch = b})

(* C19 as stated: with the square pen and the straight cubic from (0,0) to
   (10,0), split_at_tees inserts no knot, each of the two sweeps emits
   exactly 4 pieces and the stroke has 8 pieces. *)
C19_FourPiecesPerSweep ==
    SquareOnStraight =>
        /\ AfterSplit => Len(Ring(knot, path)) = 2
        /\ pc = "show_segments" => trace_top = 4 * 4
        /\ pc = "show_segments_return" => trace_top = 4 * 4
        /\ pc = "knots_ring_free" => stroke.length = 8

(* C19, amended: with the square pen and the straight cubic from (0,0) to
   (10,0), split_at_tees inserts no knot, each of the two sweeps emits
   exactly 5 pieces (three pen edges at the first knot of the sweep and
   two translated copies of the path segment), and the stroke has 10
   pieces. *)
C19_FivePiecesPerSweep ==
    SquareOnStraight =>
        /\ AfterSplit => Len(Ring(knot, path)) = 2
        /\ pc \in {"show_segments", "show_segments_return"} =>
               /\ trace_top = 4 * 5
               /\ PiecesOnBranch(1) = 3
               /\ PiecesOnBranch(2) = 2
        /\ pc = "knots_ring_free" => stroke.length = 10

(* Both sweeps of the scenario are shown. *)
C19_Witness ==
    /\ SquareOnStraight /\ pc = "knots_ring_free" /\ fault = "none"
    /\ stroke.length = 10

(***************************************************************************)
(* Caller of split_at_tees: a pen, a path of one cubic, brush_make on the  *)
(* pen, one split_at_tees on the path, then knots_ring_free of the path.   *)
(***************************************************************************)
SplitPens == {Square, Rectangle, Slanted}
SplitCurves == PathCurves \cup {StraightCubic, InflectionCubic}

(* split_at_tees(path, brush) *)
SplitPath ==
    /\ Idle /\ path # NULL /\ brush # NULL
    /\ Len(hist) < MaxHist
    /\ \E r \in {split_at_tees(Mem, [tee_stack |-> tee_stack,
                                     tee_top |-> tee_top, peak |-> tee_peak],
                               path, brush)} :
           /\ SetMem(r.mem)
           /\ tee_stack' = r.sc.tee_stack
           /\ tee_top' = r.sc.tee_top
           /\ tee_peak' = r.sc.peak
           /\ fault' = IF ~r.ok THEN "null_deref"
                       ELSE IF r.sc.peak > 2 * PEN_MAX THEN "tee_stack_overflow"
                       ELSE "none"
    /\ Record("split_at_tees", path, path)
    /\ pc' = "knots_ring_free"
    /\ UNCHANGED <<path, brush, return_path, trace, trace_top, trace_log,
                   stroke, ret>>

(* knots_ring_free(path) *)
SplitFree ==
    /\ fault = "none" /\ pc \in {"knots_ring_free", "split_twice"}
    /\ SetMem(knots_ring_free(Mem, path))
    /\ path' = NULL
    /\ pc' = "idle"
    /\ UNCHANGED <<brush, return_path, scratchVars, ret, fault, hist>>

NextSplit ==
    \/ \E pts \in SplitPens : BrushBuild(pts, TRUE)
    \/ BrushMake
    \/ \E c \in SplitCurves : PathBuildCurve(c)
    \/ SplitPath
    \/ SplitFree

SpecSplit == Init /\ [][NextSplit]_vars

(***************************************************************************)
(* Scenario: inflection split (SpecSplit)                                  *)
(***************************************************************************)
SplitDone ==
    /\ fault = "none" /\ pc = "knots_ring_free"
    /\ hist # <<>> /\ Last(hist).op = "split_at_tees"

(* The path was the cubic with one inflection, and brush_make accepts the
   pen. *)
InflectionSplit ==
    /\ SplitDone
    /\ DrawnCubic = <<IPt(0, 0)>> \o InflectionCubic
    /\ brush_make(Last(hist).before, brush).result = 1

(* The tees inflection_tees pushes for the first segment of the path as it
   was before split_at_tees. *)
InflectionRoots ==
    The({ SubSeq(sc.tee_stack, 1, sc.tee_top)
        : sc \in {inflection_tees(Last(hist).before,
                                  [tee_stack |-> <<>>, tee_top |-> 0,
                                   peak |-> 0], path)} })

SplitRing == Ring(knot, path)

(* C20 as stated: for the cubic (0,0), (0,10), (10,-10), (10,0)
   inflection_tees pushes the one root 1/2, and after split_at_tees with
   any pen brush_make accepts the path has exactly one additional knot,
   at (5,0). *)
C20_OneKnotAtMidpoint ==
    InflectionSplit =>
        /\ InflectionRoots = <<Rat(1, 2)>>
        /\ Len(SplitRing) = 3
        /\ Pos(knot, SplitRing[2]) = IPt(5, 0)

(* C20, amended: inflection_tees pushes the one root 1/2, and after
   split_at_tees exactly one knot of the path is at (5,0).  It is the only
   additional knot for the pen with vertical sides and sides of slope -1;
   with the square pen (and the rectangle) the horizontal sides add a
   knot before it, above the x axis, and a knot after it, below. *)
C20_MidpointAmongSplitKnots ==
    InflectionSplit =>
        /\ InflectionRoots = <<Rat(1, 2)>>
        /\ Cardinality({i \in 1..Len(SplitRing) :
                           Pos(knot, SplitRing[i]) = IPt(5, 0)}) = 1
        /\ DrawnPen = Slanted =>
               /\ Len(SplitRing) = 3
               /\ Pos(knot, SplitRing[2]) = IPt(5, 0)
        /\ DrawnPen \in {Square, Rectangle} =>
               /\ Len(SplitRing) = 5
               /\ Pos(knot, SplitRing[3]) = IPt(5, 0)
               /\ RLt(Zero, knot[SplitRing[2]].y)
               /\ RLt(knot[SplitRing[4]].y, Zero)

(* The cubic with one inflection, split with the square pen. *)
C20_Witness ==
    /\ InflectionSplit /\ DrawnPen = Square
    /\ Len(SplitRing) = 5

(***************************************************************************)
(* Caller that calls split_at_tees twice on the same path and pen.         *)
(***************************************************************************)
ResplitCurves == PathCurves \cup {StraightCubic, HookCubic}

(* The second split_at_tees(path, brush). *)
SplitAgain ==
    /\ fault = "none" /\ pc = "knots_ring_free"
    /\ \E r \in {split_at_tees(Mem, [tee_stack |-> tee_stack,
                                     tee_top |-> tee_top, peak |-> tee_peak],
                               path, brush)} :
           /\ SetMem(r.mem)
           /\ tee_stack' = r.sc.tee_stack
           /\ tee_top' = r.sc.tee_top
           /\ tee_peak' = r.sc.peak
           /\ fault' = IF ~r.ok THEN "null_deref"
                       ELSE IF r.sc.peak > 2 * PEN_MAX THEN "tee_stack_overflow"
                       ELSE "none"
    /\ Record("split_at_tees", path, path)
    /\ pc' = "split_twice"
    /\ UNCHANGED <<path, brush, return_path, trace, trace_top, trace_log,
                   stroke, ret>>

NextResplit ==
    \/ \E pts \in SplitPens : BrushBuild(pts, TRUE)
    \/ BrushMake
    \/ \E c \in ResplitCurves : PathBuildCurve(c)
    \/ SplitPath
    \/ SplitAgain
    \/ SplitFree

SpecResplit == Init /\ [][NextResplit]_vars

(* C21: a second split_at_tees on a path already split with the same pen,
   a pen brush_make accepts, inserts no knot. *)
C21_SecondSplitInsertsNothing ==
    (/\ fault = "none" /\ pc = "split_twice"
     /\ brush_make(Last(hist).before, brush).result = 1)
        => Len(Ring(knot, path)) = Len(Ring(Last(hist).before, path))


(***************************************************************************)
(* Pen transformations: brush_tf with a fixed set of matrices and          *)
(* brush_tf_reflect, interleaved with brush_make on a pen ring.            *)
(***************************************************************************)

(* The pen of test_case2 in transforms_test.c. *)
HousePen == <<IPt(1, 1), Pt(Rat(1, 2), Rat(3, 2)), IPt(0, 1), IPt(0, 0),
              IPt(1, 0)>>

TfPens == {Square, SquareCW, Rectangle, Slanted, Diamond, Triangle, HousePen}

Identity == <<<<One, Zero, Zero>>, <<Zero, One, Zero>>, <<Zero, Zero, One>>>>

(* The matrices handed to brush_tf: the identity, the matrix brush_tf_resize
   builds for factor 2 on both axes, and a translation by (1, 1). *)
Transforms ==
    <<Identity,
      <<<<R(2), Zero, Zero>>, <<Zero, R(2), Zero>>, <<Zero, Zero, One>>>>,
      <<<<One, Zero, One>>, <<Zero, One, One>>, <<Zero, Zero, One>>>>>>

Axes == <<"X", "Y", "Z">>

(* brush_tf_reflect without the reversal of the ring. *)
brush_tf_reflect_unreversed(h, first, axis) ==
    IF axis = "X"
    THEN brush_tf(h, first, <<<<One, Zero, Zero>>, <<Zero, RNeg(One), Zero>>,
                             <<Zero, Zero, One>>>>)
    ELSE IF axis = "Y"
    THEN brush_tf(h, first, <<<<RNeg(One), Zero, Zero>>, <<Zero, One, Zero>>,
                             <<Zero, Zero, One>>>>)
    ELSE h

(* brush_tf_reflect: the ring is reversed and the mirror matrix applied from
   the knot the reversal returns; axis Z leaves the ring alone.  first is a
   by-value parameter, the caller keeps its own pointer. *)
brush_tf_reflect(h, first, axis) ==
    IF axis = "X"
    THEN The({ brush_tf(r.knot, r.result,
                        <<<<One, Zero, Zero>>, <<Zero, RNeg(One), Zero>>,
                          <<Zero, Zero, One>>>>)
             : r \in {knots_ring_reverse(h, first)} })
    ELSE IF axis = "Y"
    THEN The({ brush_tf(r.knot, r.result,
                        <<<<RNeg(One), Zero, Zero>>, <<Zero, One, Zero>>,
                          <<Zero, Zero, One>>>>)
             : r \in {knots_ring_reverse(h, first)} })
    ELSE h

BrushTf(i) ==
    /\ fault = "none" /\ pc = "idle"
    /\ brush # NULL /\ path = NULL
    /\ Len(hist) < MaxHist
    /\ knot' = brush_tf(knot, brush, Transforms[i])
    /\ hist' = Append(hist, [op |-> "brush_tf", ret |-> i, arg |-> brush,
                             types |-> TypeSeq(knot, brush),
                             before |-> knot])
    /\ UNCHANGED <<unused_knots, knots_block_count, path, brush, return_path,
                   scratchVars, ret, pc, fault>>

BrushReflect(i) ==
    /\ fault = "none" /\ pc = "idle"
    /\ brush # NULL /\ path = NULL
    /\ Len(hist) < MaxHist
    /\ knot' = brush_tf_reflect(knot, brush, Axes[i])
    /\ hist' = Append(hist, [op |-> "brush_tf_reflect", ret |-> i,
                             arg |-> brush,
                             types |-> TypeSeq(knot, brush),
                             before |-> knot])
    /\ UNCHANGED <<unused_knots, knots_block_count, path, brush, return_path,
                   scratchVars, ret, pc, fault>>

NextTf ==
    \/ \E pts \in TfPens, closed \in BOOLEAN : BrushBuild(pts, closed)
    \/ BrushMake
    \/ \E i \in DOMAIN Transforms : BrushTf(i)
    \/ \E i \in DOMAIN Axes : BrushReflect(i)

SpecTf == Init /\ [][NextTf]_vars

(* The matrix applied to a point. *)
Apply(t, p) == <<Row(t[1], p[1], p[2]), Row(t[2], p[1], p[2])>>

(* C22: after brush_tf every knot position and every Explicit control
   payload of the ring is the matrix applied to its value before the call;
   with the identity matrix positions and payloads are unchanged. *)
C22_TfMapsKnotsAndControls ==
    (fault = "none" /\ hist # <<>> /\ Last(hist).op = "brush_tf") =>
        \A i \in DOMAIN Ring(knot, brush) :
            LET k == Ring(knot, brush)[i]
                b == Last(hist).before
                t == Transforms[Last(hist).ret]
            IN  /\ Pos(knot, k) = Apply(t, Pos(b, k))
                /\ b[k].left_type = kt_explicit
                       => knot[k].left_info = Apply(t, b[k].left_info)
                /\ b[k].right_type = kt_explicit
                       => knot[k].right_info = Apply(t, b[k].right_info)

(* A pen accepted by brush_make, then mirrored, then handed to brush_make
   again through the pointer the caller holds. *)
MadeReflectedMade ==
    /\ fault = "none" /\ Len(hist) = 3
    /\ hist[1].op = "brush_make" /\ hist[1].ret = 1
    /\ AllExplicit(hist[1].before, brush)
    /\ hist[2].op = "brush_tf_reflect" /\ Axes[hist[2].ret] \in {"X", "Y"}
    /\ hist[3].op = "brush_make"

Mirrored(axis, p) ==
    IF axis = "X" THEN <<p[1], RNeg(p[2])>> ELSE <<RNeg(p[1]), p[2]>>

(* C23: a closed pen on which brush_make returned +1 is still accepted by
   brush_make after brush_tf_reflect about X or Y, and its knots sit at the
   mirrored positions. *)
C23_ReflectKeepsPenValid ==
    MadeReflectedMade =>
        /\ hist[3].ret = 1
        /\ \A i \in DOMAIN Ring(knot, brush) :
               Pos(knot, Ring(knot, brush)[i])
                   = Mirrored(Axes[hist[2].ret],
                              Pos(hist[2].before, Ring(knot, brush)[i]))

C23_Witness ==
    /\ MadeReflectedMade
    /\ hist[3].ret = 1
    /\ Len(Ring(knot, brush)) = 5
    /\ Axes[hist[2].ret] = "X"
    /\ Ring(knot, brush) # Ring(hist[2].before, brush)

(* The first defect in traversal order, read off the ring a call of
   brush_make was given: 0 - 1 for a zero-length edge, 0 - 2 for a turn that
   is not a left turn, 0 - 3 for more than one revolution, 1 for none. *)
ZeroOut(h, k) == Pos(h, k) = Pos(h, h[k].succ)

Defect(h, k) ==
    IF ZeroOut(h, k) THEN 0 - 1
    ELSE IF (~ZeroOut(h, h[k].pred)) /\ TurnAt(h, k) <= 0 THEN 0 - 2
    ELSE 0

FirstDefect(h, first) ==
    LET ks  == Ring(h, first)
        bad == {i \in DOMAIN ks : Defect(h, ks[i]) # 0}
    IN  IF ZeroOut(h, h[first].pred) THEN 0 - 1
        ELSE IF bad # {}
             THEN Defect(h, ks[CHOOSE i \in bad : \A j \in bad : i <= j])
             ELSE IF SumSeq([i \in DOMAIN ks |-> TurnAt(h, ks[i])]) > 2 * M_PI
                  THEN 0 - 3
                  ELSE 1

(* Two or more knots, pairwise distinct, on one line. *)
DistinctCollinear(h, first) ==
    LET ks == Ring(h, first)
    IN  /\ Len(ks) >= 2
        /\ \A i, j \in DOMAIN ks : i # j => Pos(h, ks[i]) # Pos(h, ks[j])
        /\ \A i \in DOMAIN ks :
               Cross(PSub(Pos(h, ks[2]), Pos(h, ks[1])),
                     PSub(Pos(h, ks[i]), Pos(h, ks[1]))) = Zero

(* A convex ring walked twice: the second half repeats the first and one
   lap is accepted. *)
WalkedTwice(h, first) ==
    LET ks == Ring(h, first)
        n  == Len(ks) \div 2
    IN  /\ Len(ks) = 2 * n /\ n >= 3
        /\ \A i \in 1..n : Pos(h, ks[i]) = Pos(h, ks[i + n])
        /\ \A i \in DOMAIN ks : ~ZeroOut(h, ks[i]) /\ TurnAt(h, ks[i]) > 0
        /\ SumSeq([i \in 1..n |-> TurnAt(h, ks[i])]) = 2 * M_PI

(* C24: brush_make returns the code of the first defect in traversal order
   from the knot passed in; a ring of pairwise distinct collinear knots gets
   0 - 2 and a convex ring walked twice gets 0 - 3. *)
C24_FirstDefectReported ==
    AfterMake =>
        /\ ret = FirstDefect(Last(hist).before, brush)
        /\ DistinctCollinear(Last(hist).before, brush) => ret = 0 - 2
        /\ WalkedTwice(Last(hist).before, brush) => ret = 0 - 3

(* A zero-length edge met before a later right turn, a collinear ring of
   three knots, and a ring walked twice have all been judged. *)
C24_Witness ==
    /\ AfterMake
    /\ LET b == Last(hist).before
           ks == Ring(b, brush)
       IN  /\ Len(ks) = 4 /\ ret = 0 - 1
           /\ ~ZeroOut(b, b[brush].pred) /\ ~ZeroOut(b, ks[1])
           /\ TurnAt(b, ks[1]) > 0
           /\ ZeroOut(b, ks[2])

C24_WitnessCollinear ==
    /\ AfterMake /\ ret = 0 - 2
    /\ DistinctCollinear(Last(hist).before, brush)
    /\ Len(Ring(knot, brush)) = 3

C24_WitnessTwice ==
    AfterMake /\ ret = 0 - 3 /\ WalkedTwice(Last(hist).before, brush)

(* The candidate tees of the first segment of the path as it was before
   split_at_tees: what inflection_tees and pen_tees push. *)
CandidateTees ==
    The({ {sc.tee_stack[i] : i \in 1..sc.tee_top}
        : sc \in {pen_tees(Last(hist).before,
                           inflection_tees(Last(hist).before,
                                           [tee_stack |-> <<>>, tee_top |-> 0,
                                            peak |-> 0], path),
                           path, brush)} })

InsideTees == {m \in CandidateTees : RLt(Zero, m) /\ RLt(m, One)}

(* The i-th smallest of the tees inside (0, 1). *)
InsideTee(i) ==
    CHOOSE x \in InsideTees :
        Cardinality({y \in InsideTees : RLt(y, x)}) = i - 1

(* The point of the cubic c = <<p0, c1, c2, p3>> at parameter t. *)
BezierAt(c, t) ==
    PtOfTheWay(t, PtOfTheWay(t, PtOfTheWay(t, c[1], c[2]),
                                PtOfTheWay(t, c[2], c[3])),
                  PtOfTheWay(t, PtOfTheWay(t, c[2], c[3]),
                                PtOfTheWay(t, c[3], c[4])))

(* split_at_tees has run on a path of one cubic. *)
CubicSplit == SplitDone /\ DrawnCubic # <<>>

(* C25: split_at_tees inserts one knot per distinct candidate tee strictly
   inside (0, 1) and none for the others; the inserted knots follow one
   another in ascending tee order, the i-th at the point of the segment at
   the i-th tee, and each is Explicit on both sides. *)
C25_OneKnotPerInsideTee ==
    CubicSplit =>
        /\ Len(SplitRing) = 2 + Cardinality(InsideTees)
        /\ SplitRing[1] = path
        /\ Pos(knot, SplitRing[Len(SplitRing)]) = DrawnCubic[4]
        /\ \A i \in 1..Cardinality(InsideTees) :
               /\ Pos(knot, SplitRing[i + 1])
                      = BezierAt(DrawnCubic, InsideTee(i))
               /\ knot[SplitRing[i + 1]].left_type = kt_explicit
               /\ knot[SplitRing[i + 1]].right_type = kt_explicit
               /\ SplitRing[i + 1] \notin DOMAIN Last(hist).before
                  \/ SplitRing[i + 1] \notin
                         Range(Ring(Last(hist).before, path))

(* Several knots inserted while some candidate lay outside (0, 1) and some
   candidate was pushed more than once. *)
C25_Witness ==
    /\ CubicSplit
    /\ Cardinality(InsideTees) >= 2
    /\ CandidateTees # InsideTees
    /\ tee_top > Cardinality(InsideTees)

(***************************************************************************)
(* The root finders and reduce_angle called on their own, on coefficients  *)
(* and angles from small sets, with the tee stack as the calls leave it.   *)
(***************************************************************************)
MaxTees == 3

Coefs == {R(0 - 3), R(0 - 1), Zero, One, R(2)}

(* Differences of two atan2 values, in units of pi/4. *)
Angles == (0 - 2 * M_PI)..(2 * M_PI)

Called(op, result, arg) ==
    hist' = <<[op |-> op, ret |-> result, arg |-> arg, types |-> <<>>,
               before |-> [tee_stack |-> tee_stack, tee_top |-> tee_top]]>>

SolveQuadratic(a, b, c) ==
    /\ fault = "none" /\ pc = "idle"
    /\ tee_top + 2 <= MaxTees
    /\ \E r \in {solve_quadratic([tee_stack |-> tee_stack, tee_top |-> tee_top,
                                  peak |-> tee_peak], a, b, c)} :
           /\ tee_stack' = r.sc.tee_stack
           /\ tee_top' = r.sc.tee_top
           /\ tee_peak' = r.sc.peak
           /\ Called("solve_quadratic", r.n, <<a, b, c>>)
    /\ UNCHANGED <<knot, unused_knots, knots_block_count, path, brush,
                   return_path, trace, trace_top, trace_log, stroke, ret, pc,
                   fault>>

SolveBezier(u, v, w) ==
    /\ fault = "none" /\ pc = "idle"
    /\ tee_top + 2 <= MaxTees
    /\ \E r \in {solve_bezier([tee_stack |-> tee_stack, tee_top |-> tee_top,
                               peak |-> tee_peak], u, v, w)} :
           /\ tee_stack' = r.sc.tee_stack
           /\ tee_top' = r.sc.tee_top
           /\ tee_peak' = r.sc.peak
           /\ Called("solve_bezier", r.n, <<u, v, w>>)
    /\ UNCHANGED <<knot, unused_knots, knots_block_count, path, brush,
                   return_path, trace, trace_top, trace_log, stroke, ret, pc,
                   fault>>

ReduceAngle(theta) ==
    /\ fault = "none" /\ pc = "idle"
    /\ Called("reduce_angle", reduce_angle(theta), theta)
    /\ UNCHANGED <<knot, unused_knots, knots_block_count, path, brush,
                   return_path, scratchVars, ret, pc, fault>>

NextMath ==
    \/ \E a, b, c \in Coefs : SolveQuadratic(a, b, c)
    \/ \E u, v, w \in Coefs : SolveBezier(u, v, w)
    \/ \E theta \in Angles : ReduceAngle(theta)

SpecMath == Init /\ [][NextMath]_vars

(* The polynomials whose roots are asked for. *)
Quadratic(q, t) ==
    RAdd(RSub(RMul(q[1], RMul(t, t)), RMul(RMul(R(2), q[2]), t)), q[3])

BezierForm(q, t) ==
    RAdd(RAdd(RMul(q[1], RMul(RSub(One, t), RSub(One, t))),
              RMul(RMul(R(2), q[2]), RMul(RSub(One, t), t))),
         RMul(q[3], RMul(t, t)))

(* Number of distinct real roots of a t^2 - 2 b t + c, none counted for the
   polynomial without a t (a = 0 and b = 0). *)
RootCount(a, b, c) ==
    IF a = Zero THEN (IF b = Zero THEN 0 ELSE 1)
    ELSE IF RLt(RSub(RMul(b, b), RMul(a, c)), Zero) THEN 0
    ELSE IF RSub(RMul(b, b), RMul(a, c)) = Zero THEN 1
    ELSE 2

(* The discriminant has a rational root, so sqrt is exact. *)
ExactRoots(a, b, c) ==
    \/ a = Zero
    \/ RLt(RSub(RMul(b, b), RMul(a, c)), Zero)
    \/ LET d == RSub(RMul(b, b), RMul(a, c))
       IN  RMul(sqrt(d), sqrt(d)) = d

AfterSolve ==
    hist # <<>> /\ Last(hist).op \in {"solve_quadratic", "solve_bezier"}

(* The call's A, B, C: as passed, or for solve_bezier the coefficients of
   t^2, -2t and 1 of the expanded form. *)
Solved ==
    LET q == Last(hist).arg
    IN  IF Last(hist).op = "solve_quadratic" THEN q
        ELSE <<RAdd(RSub(q[1], RMul(R(2), q[2])), q[3]), RSub(q[1], q[2]),
               q[1]>>

Pushed == SubSeq(tee_stack, Last(hist).before.tee_top + 1, tee_top)

(* C26: solve_quadratic and solve_bezier return the number of distinct real
   roots, tee_top grows by that number, the entries below stay, and the
   entries pushed are the distinct roots (of the quadratic, and of the
   Bezier form for solve_bezier) whenever the square root is exact; with
   an inexact root the two entries still multiply to C / A. *)
C26_PushesDistinctRoots ==
    AfterSolve =>
        LET q == Solved
            n == Last(hist).ret
        IN  /\ n = RootCount(q[1], q[2], q[3])
            /\ tee_top = Last(hist).before.tee_top + n
            /\ SubSeq(tee_stack, 1, Last(hist).before.tee_top)
                   = SubSeq(Last(hist).before.tee_stack, 1,
                            Last(hist).before.tee_top)
            /\ Cardinality(Range(Pushed)) = n
            /\ ExactRoots(q[1], q[2], q[3]) =>
                   \A i \in DOMAIN Pushed :
                       /\ Quadratic(q, Pushed[i]) = Zero
                       /\ Last(hist).op = "solve_bezier" =>
                              BezierForm(Last(hist).arg, Pushed[i]) = Zero
            /\ ~ExactRoots(q[1], q[2], q[3]) =>
                   RMul(Pushed[1], Pushed[2]) = RDiv(q[3], q[1])

(* Two distinct roots pushed above an entry of an earlier call, B < 0. *)
C26_Witness ==
    /\ AfterSolve /\ Last(hist).op = "solve_quadratic"
    /\ Last(hist).ret = 2 /\ Last(hist).before.tee_top = 1
    /\ RLt(Solved[2], Zero) /\ Solved[3] # Zero
    /\ ExactRoots(Solved[1], Solved[2], Solved[3])

C26_WitnessBezier ==
    /\ AfterSolve /\ Last(hist).op = "solve_bezier"
    /\ Last(hist).ret = 2 /\ Solved[3] # Zero
    /\ ExactRoots(Solved[1], Solved[2], Solved[3])

AfterReduce == hist # <<>> /\ Last(hist).op = "reduce_angle"

(* C27 as stated: for theta in [-2 pi, 2 pi] reduce_angle(theta) lies in
   the half-open interval (-pi, pi] and differs from theta by a multiple
   of 2 pi. *)
C27_ReducedHalfOpen ==
    AfterReduce =>
        /\ 0 - M_PI < Last(hist).ret /\ Last(hist).ret <= M_PI
        /\ Last(hist).ret - Last(hist).arg \in {0 - 2 * M_PI, 0, 2 * M_PI}

(* C27, amended: reduce_angle(theta) lies in the closed interval
   [-pi, pi], is -pi only for theta = -pi, which it returns as it is, and
   differs from theta by a multiple of 2 pi. *)
C27_ReducedClosed ==
    AfterReduce =>
        /\ 0 - M_PI <= Last(hist).ret /\ Last(hist).ret <= M_PI
        /\ Last(hist).ret = 0 - M_PI => Last(hist).arg = 0 - M_PI
        /\ Last(hist).arg = 0 - M_PI => Last(hist).ret = 0 - M_PI
        /\ Last(hist).ret - Last(hist).arg \in {0 - 2 * M_PI, 0, 2 * M_PI}

(* An angle below -pi has been wrapped. *)
C27_Witness ==
    /\ AfterReduce
    /\ Last(hist).arg < 0 - M_PI
    /\ Last(hist).ret = Last(hist).arg + 2 * M_PI

C27_WitnessBoundary ==
    AfterReduce /\ Last(hist).arg = 0 - M_PI /\ Last(hist).ret = 0 - M_PI

(* The last operation was knots_ring_reverse. *)
AfterReverse == hist # <<>> /\ Last(hist).op = "knots_ring_reverse"

(* The ring handed to it was an open path ring: one knot with
   right = Regular, and the knot passed in has left = Open. *)
OpenRingReversed ==
    /\ AfterReverse
    /\ Cardinality(RightRegular(Last(hist).before, Last(hist).arg)) = 1
    /\ Last(hist).before[Last(hist).arg].left_type = kt_open

(* No knot of the ring handed to it had a Regular side. *)
NoRegularReversed ==
    /\ AfterReverse
    /\ \A k \in Range(Ring(Last(hist).before, Last(hist).arg)) :
           /\ Last(hist).before[k].left_type # kt_regular
           /\ Last(hist).before[k].right_type # kt_regular

(* C28: on an open path ring knots_ring_reverse returns the old tail, turns
   every link round, and leaves an open path ring whose start (left = Open)
   is the old tail and whose only right = Regular knot is the old start,
   now the last knot; on a ring without a Regular side it returns the knot
   passed in. *)
C28_ReverseOpenRing ==
    /\ OpenRingReversed =>
           LET b == Last(hist).before
               a == Last(hist).arg
               r == Last(hist).ret
           IN  /\ RightRegular(b, a) = {r}
               /\ \A k \in Range(Ring(b, a)) :
                      /\ knot[k].succ = b[k].pred
                      /\ knot[k].pred = b[k].succ
               /\ Len(Ring(knot, r)) = Len(Ring(b, a))
               /\ knot[r].left_type = kt_open
               /\ RightRegular(knot, r) = {a}
               /\ knot[r].pred = a
    /\ NoRegularReversed => Last(hist).ret = Last(hist).arg

(* An open path of three or more knots has been reversed. *)
C28_Witness ==
    /\ OpenRingReversed
    /\ Len(Ring(knot, Last(hist).ret)) >= 3
    /\ Last(hist).ret # Last(hist).arg
    /\ knot[Last(hist).ret].left_type = kt_open

C28_WitnessClosed ==
    /\ NoRegularReversed
    /\ Len(Ring(knot, Last(hist).ret)) >= 3

(***************************************************************************)
(* split_at_tees called on paths of every shape the builders leave: a      *)
(* single knot, open and closed rings of lines, one cubic.                 *)
(***************************************************************************)
DotPts == {IPt(0, 0), IPt(1, 1)}

NextDot ==
    \/ \E pts \in SplitPens : BrushBuild(pts, TRUE)
    \/ BrushMake
    \/ \E point \in DotPts : PathMoveto(point)
    \/ \E point \in PathPts : PathLineto(point)
    \/ PathClose
    \/ \E c \in PathCurves : PathBuildCurve(c)
    \/ SplitPath
    \/ SplitFree

SpecDot == Init /\ [][NextDot]_vars

(* The knots of the path at entry, and its tail when it is open. *)
EntryKnots == Ring(Last(hist).before, path)

EntryTail ==
    {k \in Range(EntryKnots) : Last(hist).before[k].right_type = kt_regular}

(* The tees strictly inside (0, 1) of the segment that started at k at
   entry. *)
TeesAt(k) ==
    The({ {m \in {sc.tee_stack[i] : i \in 1..sc.tee_top} :
              RLt(Zero, m) /\ RLt(m, One)}
        : sc \in {pen_tees(Last(hist).before,
                           inflection_tees(Last(hist).before,
                                           [tee_stack |-> <<>>, tee_top |-> 0,
                                            peak |-> 0], k),
                           k, brush)} })

(* The number of knots that now stand between k and the next knot that was
   in the path at entry. *)
NewAfter(k) ==
    LET r == Ring(knot, k)
        later == {i \in 2..Len(r) : r[i] \in Range(EntryKnots)}
    IN  IF later = {} THEN Len(r) - 1
        ELSE (CHOOSE i \in later : \A j \in later : i <= j) - 2

(* C29: split_at_tees returns, having cut each segment that existed at
   entry once, at its own tees, and having left the gap between the tail
   and the start of an open path alone. *)
C29_EntrySegmentsOnce ==
    SplitDone =>
        \A k \in Range(EntryKnots) :
            IF k \in EntryTail THEN NewAfter(k) = 0
            ELSE NewAfter(k) = Cardinality(TeesAt(k))

(* The pen knots whose translate of the segment that starts at path knot p
   is in the trace. *)
Carriers(p) == {r \in Range(PenKnots) : PiecesOf(p, r, 2) # {}}

(* The chord of the segment at p has the direction of a pen edge or the
   opposite one. *)
ChordParallel(p) ==
    \E r \in Range(PenKnots) : Cross(V3(p), V5(r)) = Zero

(* C30: with a pen brush_make accepted, convolve_all writes the segment of
   every path knot with a non-zero chord once for one pen knot or once for
   each of two, and for two only when the chord is parallel to a pen
   edge. *)
C30_SegmentCarriedOnceOrTwice ==
    (ConvolveDone /\ ret = 1) =>
        \A i \in DOMAIN Segments :
            V3(Segments[i]) # <<Zero, Zero>> =>
                /\ Cardinality(Carriers(Segments[i])) \in {1, 2}
                /\ \A r \in Carriers(Segments[i]) :
                       Cardinality(PiecesOf(Segments[i], r, 2)) = 1
                /\ Cardinality(Carriers(Segments[i])) = 2
                       => ChordParallel(Segments[i])

(* One segment carried by one pen knot and one carried by two, in the same
   trace. *)
C30_Witness ==
    /\ ConvolveDone /\ ret = 1
    /\ \E i, j \in DOMAIN Segments :
           /\ V3(Segments[i]) # <<Zero, Zero>>
           /\ V3(Segments[j]) # <<Zero, Zero>>
           /\ Cardinality(Carriers(Segments[i])) = 1
           /\ Cardinality(Carriers(Segments[j])) = 2

====
